---- MODULE Spec2Model ----
(***************************************************************************)
(* A model of var_viper: the size-budgeted rendering pipeline of           *)
(* src/var_viper.py (estimate_df_limit, format_array,                      *)
(* render_recursive_html, show) and the selection state of the client      *)
(* runtime embedded in the generated document.                             *)
(*                                                                         *)
(* Markup is measured, never spelled out: a rendered fragment is a record  *)
(* that keeps what the code decided (rows shown, marker, entries, notice)  *)
(* and the length in characters of the string the code built.              *)
(***************************************************************************)
EXTENDS Integers, Sequences, FiniteSets, TLC

VARIABLES
    \* ---- estimate_df_limit applied to two tables (SpecEstimate) ----
    est_a, est_b,       \* the two tables handed to estimate_df_limit
    lim_a, lim_b,       \* its results, NotRun before the call
    \* ---- show (Spec) ----
    local_vars,         \* the snapshot: a sequence of [name, val]
    pos,                \* position of show's for loop in local_vars
    pc,                 \* "idle" | "show" | "render" | "done"
    stack,              \* the active calls of render_recursive_html
    summary_list,       \* show's summary_list
    data_store,         \* show's data_store: name -> fragment
    \* ---- the client runtime of the generated document (SpecUI) ----
    loaded,             \* the id whose fragment is in #viewer-body, or "none"
    gen,                \* how many times #viewer-body was filled
    isMouseDown,        \* the script's isMouseDown
    startCell,          \* the script's startCell: a td element or NoEl
    activeTable,        \* the script's activeTable: a table element or NoEl
    selected,           \* the td elements of the document with class selected-cell
    plot_btn,           \* #plot-btn: [display, text]
    last_action,        \* the most recent selection action, as the user made it
    pointer,            \* the primary button as the user holds it: [held, anchor]
    \* ---- copySelection (SpecCopy) ----
    copied,             \* the clipboard: [tsv, from], from being the cells
                        \* copied as [rowIndex, cellIndex, text]
    timers,             \* the pending setTimeout callbacks of line 591, in order
    \* ---- plotData (SpecPlot) ----
    plot_out,           \* what the last plotData() did: [alerts, windows, from],
                        \* windows the series of the plots it opened, from the
                        \* cells selected as [tbl, rowIndex, cellIndex, text]
    \* ---- applyHeatmap (SpecHeatmap) ----
    hm_table,           \* the tbody of a heatmap table: rows of cell texts, the
                        \* first cell of a row its label
    hm_color,           \* style.backgroundColor of each cell
    hm_applied,         \* applyHeatmap has run on the table
    \* ---- the sidebar (SpecSort) ----
    json_vars,          \* the literal {json_vars} of line 400: the ids of the
                        \* summary entries, in snapshot order
    variables,          \* const variables (line 400), the array as it is now
    listEl,             \* the ids of the .var-item elements of #var-list, in order
    sort_mode,          \* sortSelect.value
    \* ---- the resizers (SpecResize) ----
    listeners,          \* the mousemove and mouseup listeners the resizers have
                        \* put on the document, in the order they were added
    closures,           \* x and w of the closure of each resizer that has its
                        \* listeners on the document (md sets them before mm
                        \* reads them, so their values at other times are left out)
    widths,             \* style.width of the th elements and of #sidebar, where set
    drags,              \* the resizers pressed since the last release
    presses             \* how many times a resizer was pressed

est_vars == <<est_a, est_b, lim_a, lim_b>>
show_vars == <<local_vars, pos, pc, stack, summary_list, data_store>>
ui_vars == <<loaded, gen, isMouseDown, startCell, activeTable, selected,
             plot_btn, last_action, pointer>>
copy_vars == <<copied, timers, plot_out>>
heat_vars == <<hm_table, hm_color, hm_applied>>
sort_vars == <<json_vars, variables, listEl, sort_mode>>
resize_vars == <<listeners, closures, widths, drags, presses>>
page_vars == <<heat_vars, sort_vars, resize_vars>>
vars == <<est_vars, show_vars, ui_vars, copy_vars, page_vars>>

Min(a, b) == IF a <= b THEN a ELSE b
Max(a, b) == IF a >= b THEN a ELSE b

\* ------------------------------------------------------------------------
\* Configuration (src/var_viper.py:17-20) and the literals of the code
\* ------------------------------------------------------------------------
TARGET_BYTES_PER_VAR == 15 * 1024 * 1024
ABSOLUTE_ROW_LIMIT == 200000
\* estimate_df_limit
SampleRows == 5
Overhead == 100
MinRows == 50
\* format_array
TempRows == 10
max_slices == 50

\* ------------------------------------------------------------------------
\* Tables.  A table is [total_rows, cols, head_bytes, row_bytes]: to_html of
\* its first n rows is head_bytes + n * row_bytes characters long (a header
\* that does not scale with the rows, and rows of one size).
\* ------------------------------------------------------------------------
df_head(df, n) == [df EXCEPT !.total_rows = Min(Max(n, 0), df.total_rows)]

ToHtmlLen(df) == df.head_bytes + df.total_rows * df.row_bytes

\* estimate_df_limit stops at "if total_rows == 0: return 0" before it
\* renders the sample.
EstimateSamples(df) == df.total_rows # 0

\* A faulty estimate_df_limit: the minimum of 50 rows is not applied.
EstimateNoMinimum(df) ==
    IF df.total_rows = 0 THEN 0
    ELSE LET sample_size == Min(SampleRows, df.total_rows)
             num == ToHtmlLen(df_head(df, sample_size)) - Overhead
             estimated_limit == IF num <= 0 THEN TARGET_BYTES_PER_VAR
                                ELSE (TARGET_BYTES_PER_VAR * sample_size) \div num
         IN  Min(estimated_limit, ABSOLUTE_ROW_LIMIT)

\* A faulty estimate_df_limit: a sample that measures no bytes per row gets
\* no estimate at all, so the minimum applies.
EstimateDegenerateZero(df) ==
    IF df.total_rows = 0 THEN 0
    ELSE LET sample_size == Min(SampleRows, df.total_rows)
             num == ToHtmlLen(df_head(df, sample_size)) - Overhead
             estimated_limit == IF num <= 0 THEN 0
                                ELSE (TARGET_BYTES_PER_VAR * sample_size) \div num
         IN  Max(MinRows, Min(estimated_limit, ABSOLUTE_ROW_LIMIT))

\* estimate_df_limit.  bytes_per_row is the fraction num / sample_size; the
\* code divides in floating point and truncates with int(), which for the
\* positive quotient is the floor of TARGET * sample_size / num.
estimate_df_limit(df) ==
    IF df.total_rows = 0 THEN 0
    ELSE LET sample_size == Min(SampleRows, df.total_rows)
             num == ToHtmlLen(df_head(df, sample_size)) - Overhead
             \* bytes_per_row <= 0 is replaced by 1
             estimated_limit == IF num <= 0 THEN TARGET_BYTES_PER_VAR
                                ELSE (TARGET_BYTES_PER_VAR * sample_size) \div num
         IN  Max(MinRows, Min(estimated_limit, ABSOLUTE_ROW_LIMIT))

\* ------------------------------------------------------------------------
\* SpecEstimate: estimate_df_limit applied to two tables drawn from bounded
\* sets, in either order.
\* ------------------------------------------------------------------------
MaxSmallRows == 6

RowChoices == (0 .. MaxSmallRows) \cup {1000, ABSOLUTE_ROW_LIMIT + 1}
\* header sizes below, at and above the overhead the estimator subtracts
HeadChoices == {0, 100, 103, 260}
\* row sizes: none, tiny, around TARGET / ABSOLUTE_ROW_LIMIT (78.6), around
\* TARGET / 50 (314572.8), and one row larger than the budget
RowByteChoices == {0, 1, 78, 79, 2000, 314572, 314573, 16000000}

EstTables ==
    [total_rows : RowChoices, cols : {3}, head_bytes : HeadChoices,
     row_bytes : RowByteChoices]

NotRun == [ran |-> FALSE, limit |-> 0, sampled |-> FALSE]

NoTable == [total_rows |-> 0, cols |-> 0, head_bytes |-> 0, row_bytes |-> 0]

ShowIdle ==
    /\ local_vars = <<>>
    /\ pos = 0
    /\ pc = "idle"
    /\ stack = <<>>
    /\ summary_list = <<>>
    /\ data_store = <<>>

\* no element: the null of lines 410-411
NoEl == [kind |-> "null"]
NoAction == [kind |-> "none"]

\* the document as the browser opens it: nothing loaded (lines 409-414)
UIIdle ==
    /\ loaded = "none"
    /\ gen = 0
    /\ isMouseDown = FALSE
    /\ startCell = NoEl
    /\ activeTable = NoEl
    /\ selected = {}
    /\ plot_btn = [display |-> "", text |-> "Plot Selection"]
    /\ last_action = NoAction
    /\ pointer = [held |-> FALSE, anchor |-> NoEl]
    /\ copied = [tsv |-> <<>>, from |-> {}]
    /\ timers = <<>>
    /\ plot_out = [alerts |-> 0, windows |-> <<>>, from |-> {}]

\* no heatmap table in the page
HeatIdle ==
    /\ hm_table = <<>>
    /\ hm_color = <<>>
    /\ hm_applied = FALSE

\* the sidebar of the page whose contents are contentData, as the script
\* leaves it at line 414: renderList(variables)
SortIdle ==
    /\ json_vars = << <<"d", "f">>, <<"c", "f", "g">>, <<"t", "x", "t">> >>
    /\ variables = json_vars
    /\ listEl = variables
    /\ sort_mode = "created"

\* no resizer has been touched
ResizeIdle ==
    /\ listeners = <<>>
    /\ closures = [o \in {} |-> 0]
    /\ widths = [o \in {} |-> 0]
    /\ drags = {}
    /\ presses = 0

PageIdle == HeatIdle /\ SortIdle /\ ResizeIdle

EstIdle ==
    /\ est_a = NoTable
    /\ est_b = NoTable
    /\ lim_a = NotRun
    /\ lim_b = NotRun

CallEstimate(df) ==
    [ran |-> TRUE, limit |-> estimate_df_limit(df), sampled |-> EstimateSamples(df)]

EstimateA ==
    /\ ~lim_a.ran
    /\ lim_a' = CallEstimate(est_a)
    /\ UNCHANGED <<est_a, est_b, lim_b, show_vars, ui_vars, copy_vars, page_vars>>

EstimateB ==
    /\ ~lim_b.ran
    /\ lim_b' = CallEstimate(est_b)
    /\ UNCHANGED <<est_a, est_b, lim_a, show_vars, ui_vars, copy_vars, page_vars>>

InitEstimate ==
    /\ est_a \in EstTables
    /\ est_b \in EstTables
    /\ lim_a = NotRun
    /\ lim_b = NotRun
    /\ ShowIdle
    /\ UIIdle
    /\ PageIdle

NextEstimate == EstimateA \/ EstimateB

SpecEstimate == InitEstimate /\ [][NextEstimate]_vars

\* ------------------------------------------------------------------------
\* Values of a snapshot.  Every value is a record with its Python type:
\*   DataFrame, Series  [total_rows, cols, head_bytes, row_bytes]
\*   ndarray            [shape, path, head_bytes, row_bytes]; path is the
\*                      index sequence that leads to it from the array it
\*                      was sliced from
\*   dict, list         [entries, raise_at]: entries are [key, val], val a
\*                      reference into Obj; raise_at = k > 0 is a container
\*                      whose iterator raises when asked for its k-th entry
\*   str                [text_len, markup]: the length of html.escape(val),
\*                      and whether val.strip() starts with '<table'
\*   int, float, object [text_len, str_raises]
\*   function, module   filtered by show
\* ------------------------------------------------------------------------
Df(rows, cols, head, rowb) ==
    [type |-> "DataFrame", total_rows |-> rows, cols |-> cols,
     head_bytes |-> head, row_bytes |-> rowb]
Series(rows, head, rowb) ==
    [type |-> "Series", total_rows |-> rows, cols |-> 1,
     head_bytes |-> head, row_bytes |-> rowb]
Arr(shape, head, rowb) ==
    [type |-> "ndarray", shape |-> shape, path |-> <<>>,
     head_bytes |-> head, row_bytes |-> rowb]
\* a string of n characters, none of which html.escape rewrites
Str(n) == [type |-> "str", raw_len |-> n, text_len |-> n, markup |-> FALSE]
\* a string of n characters that starts with '<table'; html.escape makes it longer
Markup(n) == [type |-> "str", raw_len |-> n, text_len |-> n + 60, markup |-> TRUE]
Num(t, n) == [type |-> t, text_len |-> n, str_raises |-> FALSE]
Ref(id) == [type |-> "ref", id |-> id]
E(key, id) == [key |-> key, val |-> Ref(id)]
Dict(entries) == [type |-> "dict", entries |-> entries, raise_at |-> 0]
List(ids) ==
    [type |-> "list", raise_at |-> 0,
     entries |-> [i \in 1 .. Len(ids) |-> E(ToString(i - 1), ids[i])]]
\* a list subclass whose iterator raises at its k-th entry
LazyList(ids, k) == [List(ids) EXCEPT !.raise_at = k]

\* how far past max_slices the longest first axis of the snapshot reaches
ExtraSlices == 2

\* the fixed markup len(item_html) counts around a scalar entry:
\* '<li>' + '<div class="row-item"><span class="key">' ... '</li>'
RowItemLen == 80
LiLen == 9

Obj ==
    [id \in {"n42", "pi", "txt", "blob", "huge", "fill", "markup", "bad",
             "fn", "mod", "df_empty", "df_small", "df_tall", "df_long",
             "df_fat", "ser", "vector", "matrix", "arr0", "arr_none",
             "arr_long", "arr_wide", "cube", "hyper", "stack_over",
             "stack_full", "stack_none", "lst", "empty_list", "empty_dict",
             "meta", "cfg", "pair", "big", "exact", "trap", "trap_late", "holder",
             "cyc", "nest", "tables", "arrays"} |->
      CASE id = "n42"        -> Num("int", 2)
        [] id = "pi"         -> Num("float", 12)
        [] id = "txt"        -> Str(15)
        [] id = "blob"       -> Str(8000000)
        [] id = "huge"       -> Str(16000000)
        \* as entry "0" of a list its item is exactly TARGET_BYTES_PER_VAR long
        [] id = "fill"       -> Str(TARGET_BYTES_PER_VAR - LiLen - RowItemLen - 1)
        [] id = "markup"     -> Markup(500)
        [] id = "bad"        -> [type |-> "object", text_len |-> 0, str_raises |-> TRUE]
        [] id = "fn"         -> [type |-> "function"]
        [] id = "mod"        -> [type |-> "module"]
        [] id = "df_empty"   -> Df(0, 3, 180, 60)
        [] id = "df_small"   -> Df(5, 4, 260, 150)
        [] id = "df_tall"    -> Df(ABSOLUTE_ROW_LIMIT + 1, 2, 200, 40)
        [] id = "df_long"    -> Df(100000, 20, 900, 2000)
        [] id = "df_fat"     -> Df(60, 3, 220, 1048576)
        [] id = "ser"        -> Series(3, 150, 50)
        [] id = "vector"     -> Arr(<<20>>, 160, 55)
        [] id = "matrix"     -> Arr(<<10, 8>>, 400, 300)
        [] id = "arr0"       -> Arr(<<>>, 0, 0)
        [] id = "arr_none"   -> Arr(<<0>>, 160, 55)
        [] id = "arr_long"   -> Arr(<<250000>>, 160, 60)
        [] id = "arr_wide"   -> Arr(<<90, 4>>, 300, 400000)
        [] id = "cube"       -> Arr(<<5, 5, 3>>, 250, 120)
        [] id = "hyper"      -> Arr(<<2, 2, 3, 3>>, 250, 120)
        [] id = "stack_over" -> Arr(<<max_slices + ExtraSlices, 2, 2>>, 220, 100)
        [] id = "stack_full" -> Arr(<<max_slices, 1, 1>>, 180, 70)
        [] id = "stack_none" -> Arr(<<0, 3, 3>>, 250, 120)
        [] id = "lst"        -> List(<<"n42", "pi", "n42">>)
        [] id = "empty_list" -> List(<<>>)
        [] id = "empty_dict" -> Dict(<<>>)
        [] id = "meta"       -> Dict(<<E("author", "txt"), E("version", "pi")>>)
        [] id = "cfg"        -> Dict(<<E("metadata", "meta"), E("layers", "lst"),
                                       E("train", "df_small"), E("test", "vector"),
                                       E("html", "markup"), E("img", "cube"),
                                       E("blobs", "pair")>>)
        \* the counter passes the budget at its last entry, not before
        [] id = "pair"       -> List(<<"blob", "blob">>)
        [] id = "big"        -> List(<<"blob", "blob", "txt", "n42">>)
        [] id = "exact"      -> List(<<"fill", "txt", "txt">>)
        [] id = "trap"       -> LazyList(<<"huge", "txt", "txt">>, 2)
        [] id = "trap_late"  -> LazyList(<<"huge", "txt", "txt">>, 3)
        [] id = "holder"     -> List(<<"txt", "bad", "txt">>)
        [] id = "cyc"        -> List(<<"n42", "cyc">>)
        [] id = "nest"       -> Dict(<<E("a", "big"), E("b", "exact"), E("c", "txt")>>)
        [] id = "tables"     -> Dict(<<E("none", "df_empty"), E("s", "ser"),
                                       E("long", "df_long"), E("after", "df_small"),
                                       E("fat", "df_fat"), E("tall", "df_tall")>>)
        [] id = "arrays"     -> List(<<"arr_none", "matrix", "stack_none",
                                       "stack_full", "stack_over", "arr_long",
                                       "arr_wide", "vector">>)]

Resolve(v) == IF v.type = "ref" THEN Obj[v.id] ELSE v

\* ------------------------------------------------------------------------
\* Lengths of the markup the code writes around a value (the f-strings with
\* their placeholders empty), and of the numbers it formats into them.
\* ------------------------------------------------------------------------
\* to_html(classes='styled-table heatmap-table') against the sample's to_html
ClassesLen == 27
MarkerShowLen == 117
MarkerArrayLen == 116
MarkerEntryLen == 71
DfItemLen == 142
ArrTableItemLen == 138
ArrTreeItemLen == 105
ContItemLen == 99
OpenAttrLen == 4
SliceItemLen == 136
UlLen == 22
NoticeLen == 120
TreeWrapperLen == 32
TextBoxLen == 28

RECURSIVE Digits(_)
Digits(n) == IF n < 10 THEN 1 ELSE 1 + Digits(n \div 10)

RECURSIVE SumDigits(_)
SumDigits(shape) ==
    IF shape = <<>> THEN 0 ELSE Digits(shape[1]) + SumDigits(Tail(shape))

\* len(str(val.shape)): "()", "(n,)", "(a, b, c)"
ShapeLen(shape) ==
    IF Len(shape) = 0 THEN 2
    ELSE IF Len(shape) = 1 THEN 3 + Digits(shape[1])
    ELSE 2 + SumDigits(shape) + 2 * (Len(shape) - 1)

\* ------------------------------------------------------------------------
\* Fragments.  A table fragment keeps how many leading rows of the table it
\* holds and its truncation marker <<shown, total>> (<<>> when it has none).
\* ------------------------------------------------------------------------
\* the table of an array of rank 1 or 2: pd.DataFrame(arr[:n])
ArrayFrame(arr, n) ==
    [type |-> "DataFrame",
     total_rows |-> Min(n, arr.shape[1]),
     cols |-> IF Len(arr.shape) = 1 THEN 1 ELSE arr.shape[2],
     head_bytes |-> arr.head_bytes, row_bytes |-> arr.row_bytes]

\* A faulty truncation: the marker states the rows of the table for "shown".
TruncateMarkerSwapped(df, limit, marker_len) ==
    IF df.total_rows > limit
    THEN [kind |-> "table", rows |-> df_head(df, limit).total_rows,
          marker |-> <<df.total_rows, df.total_rows>>,
          bytes |-> ToHtmlLen(df_head(df, limit)) + ClassesLen + marker_len
                    + Digits(limit) + Digits(df.total_rows)]
    ELSE [kind |-> "table", rows |-> df.total_rows, marker |-> <<>>,
          bytes |-> ToHtmlLen(df) + ClassesLen]

\* The truncation rule the three table sites share: the first limit rows and
\* a marker when the table has more rows than limit, else the whole table.
Truncate(df, limit, marker_len) ==
    IF df.total_rows > limit
    THEN [kind |-> "table", rows |-> df_head(df, limit).total_rows,
          marker |-> <<limit, df.total_rows>>,
          bytes |-> ToHtmlLen(df_head(df, limit)) + ClassesLen + marker_len
                    + Digits(limit) + Digits(df.total_rows)]
    ELSE [kind |-> "table", rows |-> df.total_rows, marker |-> <<>>,
          bytes |-> ToHtmlLen(df) + ClassesLen]

IsTabular(val) == val.type \in {"DataFrame", "Series"}
IsArray(val) == val.type = "ndarray"
IsContainer(val) == val.type \in {"dict", "list"}

\* val if it is a DataFrame, val.to_frame() if it is a Series
ToFrame(val) == [val EXCEPT !.type = "DataFrame"]

\* format_array, arr.ndim <= 2.  arr[:10] of an array of rank 0 raises.
FormatArrayRaises(arr) == Len(arr.shape) = 0

FormatArrayTable(arr) ==
    LET temp_df == ArrayFrame(arr, TempRows)
        limit == estimate_df_limit(temp_df)
    IN  Truncate(ArrayFrame(arr, arr.shape[1]), limit, MarkerArrayLen)

\* the string f"And {k} more slices...", which keeps the k it states
PlaceholderLen == 19
MoreSlices(k) ==
    [type |-> "str", raw_len |-> PlaceholderLen + Digits(k),
     text_len |-> PlaceholderLen + Digits(k), markup |-> FALSE, more |-> k]

\* A faulty slicer: every slice is the array itself.
FormatArraySlicesNoIndex(arr) ==
    LET n == arr.shape[1]
        shown == Min(n, max_slices)
        slices == [i \in 1 .. shown |->
                     [key |-> "Slice " \o ToString(i - 1), val |-> arr]]
    IN  IF n > max_slices
        THEN Append(slices, [key |-> "...", val |-> MoreSlices(n - max_slices)])
        ELSE slices

\* A faulty slicer: the loop runs to max_slices + 1.
FormatArraySlicesOffByOne(arr) ==
    LET n == arr.shape[1]
        shown == Min(n, max_slices + 1)
        slices == [i \in 1 .. shown |->
                     [key |-> "Slice " \o ToString(i - 1),
                      val |-> [arr EXCEPT !.shape = Tail(arr.shape),
                                          !.path = Append(arr.path, i - 1)]]]
    IN  IF n > max_slices
        THEN Append(slices, [key |-> "...", val |-> MoreSlices(n - max_slices)])
        ELSE slices

\* format_array, arr.ndim > 2: the sliced_dict as its sequence of items.
FormatArraySlices(arr) ==
    LET n == arr.shape[1]
        shown == Min(n, max_slices)
        slices == [i \in 1 .. shown |->
                     [key |-> "Slice " \o ToString(i - 1),
                      val |-> [arr EXCEPT !.shape = Tail(arr.shape),
                                          !.path = Append(arr.path, i - 1)]]]
    IN  IF n > max_slices
        THEN Append(slices, [key |-> "...", val |-> MoreSlices(n - max_slices)])
        ELSE slices

\* ------------------------------------------------------------------------
\* One entry of render_recursive_html's loop that needs no recursive call:
\* [raises, reason, item].  An item is [key, variant, collapsible, open,
\* body, bytes], bytes being len(item_html).
\* ------------------------------------------------------------------------
Raised(reason) == [raises |-> TRUE, reason |-> reason]
Rendered(x) == [raises |-> FALSE, out |-> x]

Item(key, variant, collapsible, open, body, markup_len) ==
    [key |-> key, variant |-> variant, collapsible |-> collapsible,
     open |-> open, body |-> body,
     bytes |-> LiLen + markup_len + Len(key) + body.bytes]

\* the branches of lines 141-183 that end without a recursive call
RenderEntry(key, val) ==
    IF IsTabular(val) THEN
        LET df == ToFrame(val)
            limit == estimate_df_limit(df)
            shape_len == 3 + Digits(df.total_rows) + Digits(df.cols)
        IN  Rendered(Item(key, "DataFrame", TRUE, FALSE,
                          Truncate(df, limit, MarkerEntryLen),
                          DfItemLen + shape_len))
    ELSE IF IsArray(val) THEN
        IF FormatArrayRaises(val) THEN Raised("IndexError")
        ELSE Rendered(Item(key, "Array", TRUE, FALSE, FormatArrayTable(val),
                           ArrTableItemLen + ShapeLen(val.shape)))
    ELSE IF val.type = "str" /\ val.markup THEN
        Rendered(Item(key, "Table Slice", TRUE, FALSE,
                      [kind |-> "raw", bytes |-> val.raw_len], SliceItemLen))
    ELSE IF val.type = "object" /\ val.str_raises THEN Raised("str")
    ELSE Rendered(Item(key, "row-item", FALSE, FALSE,
                       [kind |-> "text", bytes |-> val.text_len], RowItemLen))

\* the branches that call render_recursive_html: an array of rank > 2 and a
\* dict or list
Descends(val) == (IsArray(val) /\ Len(val.shape) > 2) \/ IsContainer(val)

\* what the recursive call is given: format_array's dict, or the container
NestedData(val) ==
    IF IsArray(val)
    THEN [entries |-> FormatArraySlices(val), raise_at |-> 0]
    ELSE [entries |-> val.entries, raise_at |-> val.raise_at]

\* the item built around the returned html (lines 159-163 and 170-175)
NestedItem(key, val, level, tree) ==
    IF IsArray(val)
    THEN Item(key, "Array", TRUE, FALSE, tree, ArrTreeItemLen + ShapeLen(val.shape))
    ELSE Item(key, "container", TRUE, level < 1, tree,
              ContItemLen + (IF level < 1 THEN OpenAttrLen ELSE 0)
              + Digits(Len(val.entries)))

\* ------------------------------------------------------------------------
\* A call of render_recursive_html(data, level): its local variables.
\*   it_pos  how many entries the for statement has taken from the iterator
\*   phase   "fetch": at the for statement; "body": key, val are bound and
\*           the body is to run; "call": inside the recursive call
\* ------------------------------------------------------------------------
NoVal == [type |-> "none"]

NewFrame(data, level) ==
    [entries |-> data.entries, raise_at |-> data.raise_at, level |-> level,
     it_pos |-> 0, phase |-> "fetch", key |-> "", val |-> NoVal,
     count |-> 0, current_html_len |-> 0, total_len |-> Len(data.entries),
     items |-> <<>>, html_len |-> 0]

\* the returned html_str of a call: the items, the notice if the loop broke
TreeOf(f, notice) ==
    [kind |-> "tree", items |-> f.items, notice |-> notice,
     bytes |-> UlLen + f.html_len
               + (IF notice = <<>> THEN 0 ELSE NoticeLen + Digits(notice[1]))]

\* the rest of the loop body once item_html is complete (lines 185-189)
WithItem(f, item) ==
    [f EXCEPT !.phase = "fetch",
              !.current_html_len = @ + item.bytes,
              !.html_len = @ + item.bytes,
              !.items = Append(@, item)]

\* ------------------------------------------------------------------------
\* show
\* ------------------------------------------------------------------------
MaxVars == 2
\* Python's recursion limit, counted in calls of render_recursive_html
MaxCallDepth == 53

Names == {"a", "b", "_h", "np"}
StartsWithUnderscore(name) == name \in {"_h"}
ReservedNames ==
    {"var_viper", "pd", "np", "sys", "os", "html", "json", "tempfile",
     "webbrowser", "types", "traceback"}

\* the values a snapshot binds at its top level; the other values of Obj are
\* entries of these
TopIds ==
    {"txt", "bad", "fn", "mod", "df_small", "df_tall", "df_fat", "arr0",
     "arr_wide", "hyper", "cfg", "big", "trap", "trap_late", "holder", "cyc",
     "nest", "tables", "arrays", "exact"}

\* the four "continue" of lines 199-202
Filtered(name, val) ==
    \/ StartsWithUnderscore(name)
    \/ val.type = "function"
    \/ val.type = "module"
    \/ name \in ReservedNames

\* get_preview_info: which summary it gives (never raises: lines 58-59)
get_preview_info(val) ==
    IF IsTabular(val) \/ IsArray(val) THEN "Shape"
    ELSE IF IsContainer(val) THEN "Length"
    ELSE IF val.type \in {"int", "float"} THEN "Value"
    ELSE IF val.type = "str" THEN "text"
    ELSE "-"

ErrorBox(name, reason) == [kind |-> "error", name |-> name, reason |-> reason]

\* the branches of show's try block that call nothing recursive
FormatTop(val) ==
    IF IsTabular(val) THEN
        LET df == ToFrame(val)
            limit == estimate_df_limit(df)
        IN  Rendered(Truncate(df, limit, MarkerShowLen))
    ELSE IF IsArray(val) THEN
        IF FormatArrayRaises(val) THEN Raised("IndexError")
        ELSE Rendered(FormatArrayTable(val))
    ELSE IF val.type = "object" /\ val.str_raises THEN Raised("str")
    ELSE Rendered([kind |-> "text", bytes |-> TextBoxLen + val.text_len])

TreeWrapper(tree) ==
    [kind |-> "tree-wrapper", tree |-> tree, bytes |-> TreeWrapperLen + tree.bytes]

CurName == local_vars[pos].name
CurVal == Resolve(local_vars[pos].val)

\* A faulty show: the summary entry is appended inside the try block, so a
\* value whose formatting failed gets a fragment and no summary entry.
StoreSummaryInsideTry(content) ==
    /\ summary_list' =
           IF content.kind = "error" THEN summary_list
           ELSE Append(summary_list,
                  [id |-> CurName, type |-> CurVal.type, size |-> get_preview_info(CurVal)])
    /\ data_store' = (CurName :> content) @@ data_store
    /\ pos' = pos + 1

\* lines 234-235, and the loop moves on
Store(content) ==
    /\ summary_list' = Append(summary_list,
            [id |-> CurName, type |-> CurVal.type, size |-> get_preview_info(CurVal)])
    /\ data_store' = (CurName :> content) @@ data_store
    /\ pos' = pos + 1

\* A faulty show: an exception leaves the loop, nothing is stored for the
\* value and the document is not assembled.
StoreErrorAborts(reason) ==
    /\ pc' = "aborted"
    /\ stack' = <<>>
    /\ UNCHANGED <<summary_list, data_store, pos>>

\* the except clause of line 231
StoreError(reason) ==
    /\ pc' = "show"
    /\ stack' = <<>>
    /\ Store(ErrorBox(CurName, reason))

ShowSkip ==
    /\ pc = "show" /\ pos <= Len(local_vars)
    /\ Filtered(CurName, CurVal)
    /\ pos' = pos + 1
    /\ UNCHANGED <<est_vars, ui_vars, copy_vars, page_vars, local_vars, pc, stack, summary_list, data_store>>

ShowLeaf ==
    /\ pc = "show" /\ pos <= Len(local_vars)
    /\ ~Filtered(CurName, CurVal)
    /\ ~Descends(CurVal)
    /\ ~FormatTop(CurVal).raises
    /\ Store(FormatTop(CurVal).out)
    /\ UNCHANGED <<est_vars, ui_vars, copy_vars, page_vars, local_vars, pc, stack>>

ShowLeafRaises ==
    /\ pc = "show" /\ pos <= Len(local_vars)
    /\ ~Filtered(CurName, CurVal)
    /\ ~Descends(CurVal)
    /\ FormatTop(CurVal).raises
    /\ StoreError(FormatTop(CurVal).reason)
    /\ UNCHANGED <<est_vars, ui_vars, copy_vars, page_vars, local_vars>>

\* lines 222-224 and 227-228: render_recursive_html(..) is called at level 0
ShowTree ==
    /\ pc = "show" /\ pos <= Len(local_vars)
    /\ ~Filtered(CurName, CurVal)
    /\ Descends(CurVal)
    /\ stack' = <<NewFrame(NestedData(CurVal), 0)>>
    /\ pc' = "render"
    /\ UNCHANGED <<est_vars, ui_vars, copy_vars, page_vars, local_vars, pos, summary_list, data_store>>

\* line 237: the loop is over and generate_html is given both structures
ShowFinish ==
    /\ pc = "show" /\ pos > Len(local_vars)
    /\ pc' = "done"
    /\ UNCHANGED <<est_vars, ui_vars, copy_vars, page_vars, local_vars, pos, stack, summary_list, data_store>>

\* ------------------------------------------------------------------------
\* render_recursive_html, one step of the innermost call at a time
\* ------------------------------------------------------------------------
Top == stack[Len(stack)]

SetTop(f) == [stack EXCEPT ![Len(stack)] = f]

\* A faulty budget check: the counter is compared with twice the budget.
BudgetExceededLate(f) == f.current_html_len > 2 * TARGET_BYTES_PER_VAR

\* line 133
BudgetExceeded(f) == f.current_html_len > TARGET_BYTES_PER_VAR

\* A faulty count: the entry the for statement has just taken is left out.
RemainingAfterCurrent(f) == f.total_len - f.it_pos

\* line 134: remaining
Remaining(f) == f.total_len - f.count

\* "return html_str": to the caller's loop body, or to show
Return(tree) ==
    IF Len(stack) = 1
    THEN /\ stack' = <<>>
         /\ pc' = "show"
         /\ Store(TreeWrapper(tree))
    ELSE LET caller == stack[Len(stack) - 1]
             item == NestedItem(caller.key, caller.val, caller.level, tree)
         IN  /\ stack' = Append(SubSeq(stack, 1, Len(stack) - 2),
                                WithItem(caller, item))
             /\ UNCHANGED <<pc, pos, summary_list, data_store>>

\* the for statement takes the next (key, val) from the iterator
RenderNextEntry ==
    /\ pc = "render" /\ Top.phase = "fetch"
    /\ Top.it_pos < Len(Top.entries)
    /\ Top.raise_at # Top.it_pos + 1
    /\ stack' = SetTop([Top EXCEPT !.it_pos = @ + 1,
                                   !.key = Top.entries[Top.it_pos + 1].key,
                                   !.val = Resolve(Top.entries[Top.it_pos + 1].val),
                                   !.phase = "body"])
    /\ UNCHANGED <<est_vars, ui_vars, copy_vars, page_vars, local_vars, pos, pc, summary_list, data_store>>

\* the iterator raises; nothing below show catches it
RenderAccessRaises ==
    /\ pc = "render" /\ Top.phase = "fetch"
    /\ Top.it_pos < Len(Top.entries)
    /\ Top.raise_at = Top.it_pos + 1
    /\ StoreError("access")
    /\ UNCHANGED <<est_vars, ui_vars, copy_vars, page_vars, local_vars>>

\* the iterator is exhausted: lines 191-192
RenderLoopEnd ==
    /\ pc = "render" /\ Top.phase = "fetch"
    /\ Top.it_pos = Len(Top.entries)
    /\ Return(TreeOf(Top, <<>>))
    /\ UNCHANGED <<est_vars, ui_vars, copy_vars, page_vars, local_vars>>

\* lines 133-136, then 191-192
RenderCutoff ==
    /\ pc = "render" /\ Top.phase = "body"
    /\ BudgetExceeded(Top)
    /\ Return(TreeOf(Top, <<Remaining(Top)>>))
    /\ UNCHANGED <<est_vars, ui_vars, copy_vars, page_vars, local_vars>>

RenderLeaf ==
    /\ pc = "render" /\ Top.phase = "body"
    /\ ~BudgetExceeded(Top)
    /\ ~Descends(Top.val)
    /\ ~RenderEntry(Top.key, Top.val).raises
    /\ stack' = SetTop(WithItem([Top EXCEPT !.count = @ + 1],
                                RenderEntry(Top.key, Top.val).out))
    /\ UNCHANGED <<est_vars, ui_vars, copy_vars, page_vars, local_vars, pos, pc, summary_list, data_store>>

RenderLeafRaises ==
    /\ pc = "render" /\ Top.phase = "body"
    /\ ~BudgetExceeded(Top)
    /\ ~Descends(Top.val)
    /\ RenderEntry(Top.key, Top.val).raises
    /\ StoreError(RenderEntry(Top.key, Top.val).reason)
    /\ UNCHANGED <<est_vars, ui_vars, copy_vars, page_vars, local_vars>>

\* lines 162 and 174: the recursive call, one level deeper
RenderDescend ==
    /\ pc = "render" /\ Top.phase = "body"
    /\ ~BudgetExceeded(Top)
    /\ Descends(Top.val)
    /\ Len(stack) < MaxCallDepth
    /\ stack' = Append(SetTop([Top EXCEPT !.count = @ + 1, !.phase = "call"]),
                       NewFrame(NestedData(Top.val), Top.level + 1))
    /\ UNCHANGED <<est_vars, ui_vars, copy_vars, page_vars, local_vars, pos, pc, summary_list, data_store>>

\* the interpreter refuses the call: RecursionError
RenderTooDeep ==
    /\ pc = "render" /\ Top.phase = "body"
    /\ ~BudgetExceeded(Top)
    /\ Descends(Top.val)
    /\ Len(stack) >= MaxCallDepth
    /\ StoreError("RecursionError")
    /\ UNCHANGED <<est_vars, ui_vars, copy_vars, page_vars, local_vars>>

\* ------------------------------------------------------------------------
\* Spec: show(local_vars) for every snapshot of at most MaxVars named values
\* ------------------------------------------------------------------------
\* a name show keeps is bound to any value of TopIds (the callables and
\* modules among them are filtered by their value); a name show filters is
\* bound to a value show would otherwise keep
Bindings ==
    [name : {n \in Names : ~StartsWithUnderscore(n) /\ n \notin ReservedNames},
     val : {Ref(id) : id \in TopIds}]
    \cup [name : {n \in Names : StartsWithUnderscore(n) \/ n \in ReservedNames},
          val : {Ref("txt")}]

Snapshots ==
    {s \in UNION {[1 .. n -> Bindings] : n \in 1 .. MaxVars} :
        \A i, j \in DOMAIN s : i # j => s[i].name # s[j].name}

Init ==
    /\ local_vars \in Snapshots
    /\ pos = 1
    /\ pc = "show"
    /\ stack = <<>>
    /\ summary_list = <<>>
    /\ data_store = <<>>
    /\ EstIdle
    /\ UIIdle
    /\ PageIdle

Next ==
    \/ ShowSkip \/ ShowLeaf \/ ShowLeafRaises \/ ShowTree \/ ShowFinish
    \/ RenderNextEntry \/ RenderAccessRaises \/ RenderLoopEnd \/ RenderCutoff
    \/ RenderLeaf \/ RenderLeafRaises \/ RenderDescend \/ RenderTooDeep

Spec == Init /\ [][Next]_vars

\* ------------------------------------------------------------------------
\* Properties of show and render_recursive_html (Spec)
\* ------------------------------------------------------------------------
\* the named values show has dealt with, and those it kept
Processed == {i \in 1 .. Len(local_vars) : i < pos}
ValueAt(i) == Obj[local_vars[i].val.id]
Kept(i) ==
    /\ local_vars[i].name \notin {"_h", "np"}
    /\ ValueAt(i).type \notin {"function", "module"}

\* the calls of render_recursive_html whose loop has just finished an entry:
\* val is that entry's value and the last item is its rendering
JustRendered ==
    {k \in 1 .. Len(stack) :
        stack[k].phase = "fetch" /\ stack[k].it_pos > 0 /\ stack[k].items # <<>>}

\* a value with rows: a DataFrame, a Series, an array of rank 1 or 2
HasRows(v) ==
    \/ v.type \in {"DataFrame", "Series"}
    \/ v.type = "ndarray" /\ Len(v.shape) \in {1, 2}
RowsOf(v) == IF v.type = "ndarray" THEN v.shape[1] ELSE v.total_rows
\* the limit estimate_df_limit gives for the value taken as a table
LimitOf(v) ==
    estimate_df_limit([total_rows |-> RowsOf(v), cols |-> 1,
                       head_bytes |-> v.head_bytes, row_bytes |-> v.row_bytes])

TruncatedAsClaimed(v, frag) ==
    /\ frag.kind = "table"
    /\ RowsOf(v) > LimitOf(v) =>
           frag.rows = LimitOf(v) /\ frag.marker = <<LimitOf(v), RowsOf(v)>>
    /\ RowsOf(v) <= LimitOf(v) =>
           frag.rows = RowsOf(v) /\ frag.marker = <<>>

\* C1: every value with rows (a DataFrame or Series given to show, a table
\* entry of a container, an array of rank 1 or 2 at either place) is rendered
\* with its first L rows and a marker stating L shown of total_rows when it
\* has more than L rows, L being estimate_df_limit's limit, and whole and
\* without a marker otherwise.
C1_TruncationMarker ==
    /\ \A i \in Processed :
           (Kept(i) /\ HasRows(ValueAt(i))) =>
               TruncatedAsClaimed(ValueAt(i), data_store[local_vars[i].name])
    /\ \A k \in JustRendered :
           HasRows(stack[k].val) =>
               TruncatedAsClaimed(stack[k].val,
                                  stack[k].items[Len(stack[k].items)].body)

\* show has rendered df_tall (200001 rows) cut at the ceiling, and is inside a
\* list whose entry arr_wide (90 rows) has just been cut at the minimum
C1_Witness ==
    /\ pc = "render"
    /\ \E i \in Processed :
           /\ ValueAt(i) = Obj["df_tall"]
           /\ Kept(i)
           /\ data_store[local_vars[i].name].marker = <<200000, 200001>>
    /\ \E k \in JustRendered :
           /\ stack[k].val = Obj["arr_wide"]
           /\ stack[k].items[Len(stack[k].items)].body.marker = <<50, 90>>
           /\ stack[k].items[Len(stack[k].items) - 1].body.marker = <<200000, 250000>>
           /\ stack[k].items[2].body.marker = <<>>

\* the calls of render_recursive_html that were given format_array's dict of
\* an array of rank > 2, each with that array
SlicedCalls ==
    (IF pc = "render" /\ ValueAt(pos).type = "ndarray"
     THEN {<<1, ValueAt(pos)>>} ELSE {})
    \cup {<<k + 1, stack[k].val>> : k \in
            {j \in 1 .. Len(stack) - 1 :
                stack[j].phase = "call" /\ stack[j].val.type = "ndarray"}}

SlicedAsClaimed(arr, entries) ==
    LET n == arr.shape[1]
        m == IF n < 50 THEN n ELSE 50
    IN  /\ Len(entries) = m + (IF n > 50 THEN 1 ELSE 0)
        /\ \A i \in 1 .. m :
               /\ entries[i].key = "Slice " \o ToString(i - 1)
               /\ entries[i].val.type = "ndarray"
               /\ entries[i].val.shape = Tail(arr.shape)
               /\ entries[i].val.path = Append(arr.path, i - 1)
        /\ n > 50 =>
               /\ entries[m + 1].val.type = "str"
               /\ entries[m + 1].val.more = n - 50

\* C4: for an array of rank > 2 with first axis n, format_array gives
\* min(n, 50) entries 'Slice 0' .. 'Slice min(n,50)-1', each the sub-array at
\* that index, and one more entry, a string stating n - 50 more slices, if and
\* only if n > 50; that string is rendered as a plain entry, never sliced.
C4_SliceCap ==
    \A c \in SlicedCalls :
        /\ SlicedAsClaimed(c[2], stack[c[1]].entries)
        /\ \A i \in 1 .. Len(stack[c[1]].items) :
               stack[c[1]].entries[i].val.type = "str" =>
                   /\ stack[c[1]].items[i].variant = "row-item"
                   /\ ~stack[c[1]].items[i].collapsible

\* inside the list "arrays": the call for stack_over (first axis beyond 50)
\* has rendered its 50 slices and the placeholder
C4_Witness ==
    \E c \in SlicedCalls :
        /\ c[2].shape[1] > 50
        /\ c[1] = 2
        /\ Len(stack[c[1]].items) = 51
        /\ stack[c[1]].items[51].variant = "row-item"
        /\ stack[c[1]].items[50].key = "Slice 49"
        /\ stack[1].items[3].body.items = <<>>

\* the items of call k that render an array, with the rank of the array the
\* call's dict was sliced from
C5_RankStep ==
    \A c \in SlicedCalls :
        /\ \A i \in 1 .. Len(stack[c[1]].entries) :
               stack[c[1]].entries[i].val.type = "ndarray" =>
                   Len(stack[c[1]].entries[i].val.shape) = Len(c[2].shape) - 1
        /\ \A i \in 1 .. Len(stack[c[1]].items) :
               stack[c[1]].items[i].variant = "Array" =>
                   stack[c[1]].items[i].body.kind =
                       (IF Len(c[2].shape) = 3 THEN "table" ELSE "tree")

\* an array given to show is sliced on exactly rank - 2 levels
C5_Levels ==
    (pc = "render" /\ ValueAt(pos).type = "ndarray") =>
        /\ Len(stack) <= Len(ValueAt(pos).shape) - 2
        /\ \A k \in 1 .. Len(stack) - 1 :
               stack[k].phase = "call" /\ stack[k].val.type = "ndarray"

C5_Hypercube ==
    (pc = "render" /\ ValueAt(pos).type = "ndarray"
        /\ ValueAt(pos).shape = <<2, 2, 3, 3>>) =>
        /\ Len(stack[1].entries) = 2
        /\ \A i \in 1 .. 2 : stack[1].entries[i].val.shape = <<2, 3, 3>>
        /\ Len(stack) >= 2 =>
               /\ Len(stack[2].entries) = 2
               /\ \A i \in 1 .. 2 : stack[2].entries[i].val.shape = <<3, 3>>

\* What is left to do in a call: three per entry not yet taken, two when the
\* body is to run, one when the body waits for the recursive call.
CallWork(f) ==
    3 * (Len(f.entries) - f.it_pos)
    + (IF f.phase = "body" THEN 2 ELSE IF f.phase = "call" THEN 1 ELSE 0)

\* stack s has less left to do than stack t, outermost call first
LessWork(s, t) ==
    \E k \in 1 .. Len(t) :
        /\ k <= Len(s)
        /\ \A j \in 1 .. k - 1 : CallWork(s[j]) = CallWork(t[j])
        /\ CallWork(s[k]) < CallWork(t[k])

\* C5: rendering an array of rank r > 2 terminates: each slicing level hands
\* sub-arrays of rank one less to the next, there are exactly r - 2 slicing
\* levels and the leaves are arrays of rank 2 rendered as tables; shape
\* (2,2,3,3) gives 2 slices of shape (2,3,3), each giving 2 of shape (3,3).
\* Termination: while an array is being sliced the innermost call is at its
\* for statement or in its loop body, and every step either leaves less to do
\* in the calls (whose depth the rank bounds) or ends the rendering, for an
\* array given to show with its tree.
C5_SlicingTerminates ==
    /\ [](C5_RankStep /\ C5_Levels /\ C5_Hypercube)
    /\ []((pc = "render" /\ SlicedCalls # {}) =>
              stack[Len(stack)].phase \in {"fetch", "body"})
    /\ [][(pc = "render" /\ SlicedCalls # {}) =>
              \/ pc' = "render" /\ LessWork(stack', stack)
              \/ /\ pc' = "show"
                 /\ ValueAt(pos).type = "ndarray"
                 /\ data_store'[local_vars[pos].name].kind = "tree-wrapper"]_vars

\* show is two levels deep in the 4-D array: a slice of shape (3,3) of its
\* second slice of shape (2,3,3) has just been rendered as a table
C5_Witness ==
    /\ pc = "render"
    /\ ValueAt(pos).type = "ndarray" /\ ValueAt(pos).shape = <<2, 2, 3, 3>>
    /\ Len(stack) = 2
    /\ Len(stack[1].items) = 1 /\ stack[1].items[1].body.kind = "tree"
    /\ Len(stack[2].items) = 2 /\ stack[2].items[2].body.kind = "table"
    /\ stack[2].val.shape = <<3, 3>> /\ stack[2].val.path = <<1, 1>>

\* C6: once the running byte counter of a container exceeds
\* TARGET_BYTES_PER_VAR no later entry of it is visited: nothing beyond the
\* entries already rendered is taken from the container, so a container whose
\* entries after the cutoff raise on access is rendered without raising.
\* ("trap" is such a container: its first entry alone exceeds the budget and
\* its iterator raises when asked for the second.)
C6_NothingFetchedAfterCutoff ==
    /\ \A k \in 1 .. Len(stack) :
           stack[k].current_html_len > 15 * 1024 * 1024 =>
               stack[k].it_pos <= stack[k].count
    /\ \A i \in Processed :
           (Kept(i) /\ local_vars[i].val.id \in {"trap", "trap_late"}) =>
               data_store[local_vars[i].name].kind # "error"

\* the sum of len(item_html) over the items of a call or of a tree
RECURSIVE SumBytes(_)
SumBytes(items) ==
    IF items = <<>> THEN 0 ELSE items[1].bytes + SumBytes(Tail(items))

\* the fragments show has stored for the values it kept
Stored == {i \in Processed : Kept(i)}
FragmentOf(i) == data_store[local_vars[i].name]

\* C7 as claimed: no fragment is larger than TARGET_BYTES_PER_VAR by more
\* than one row of the table (with the table's header and marker) or one
\* entry of the container (with the list's own markup and notice).
C7_WithinBudgetButOneUnit ==
    \A i \in Stored :
        /\ FragmentOf(i).kind = "table" =>
               FragmentOf(i).bytes <= 15 * 1024 * 1024 + ValueAt(i).row_bytes
                                      + ValueAt(i).head_bytes + 200
        /\ (FragmentOf(i).kind = "tree-wrapper"
              /\ FragmentOf(i).tree.items # <<>>) =>
               FragmentOf(i).bytes <= 15 * 1024 * 1024 + 200
                   + FragmentOf(i).tree.items[Len(FragmentOf(i).tree.items)].bytes

\* bytes per row as estimate_df_limit measures them on the value's sample,
\* as the fraction MeasuredRowNum / MeasuredRowDen
MeasuredRowDen(v) == IF RowsOf(v) < 5 THEN RowsOf(v) ELSE 5
MeasuredRowNum(v) == v.head_bytes + MeasuredRowDen(v) * v.row_bytes - 100

\* C7 as the code has it.  A table is bounded in rows, not in bytes: it shows
\* at most 200000 rows, and when it shows more than 50 the rows shown cost no
\* more than the budget at the bytes per row measured on the sample (a table
\* of up to 50 rows is rendered whatever its size).  A container is bounded
\* by its counter: the entries rendered before the last one never exceed the
\* budget, so its fragment exceeds the budget by at most its last rendered
\* entry, whatever that entry's size, and the list's own markup and notice.
C7_BudgetAsEnforced ==
    /\ \A i \in Stored :
           /\ FragmentOf(i).kind = "table" =>
                  /\ FragmentOf(i).rows <= 200000
                  /\ FragmentOf(i).rows > 50 =>
                         FragmentOf(i).rows * MeasuredRowNum(ValueAt(i))
                             <= 15 * 1024 * 1024 * MeasuredRowDen(ValueAt(i))
           /\ (FragmentOf(i).kind = "tree-wrapper"
                 /\ FragmentOf(i).tree.items # <<>>) =>
                  /\ SumBytes(FragmentOf(i).tree.items)
                       - FragmentOf(i).tree.items[Len(FragmentOf(i).tree.items)].bytes
                       <= 15 * 1024 * 1024
                  /\ FragmentOf(i).bytes <= 15 * 1024 * 1024 + 200
                       + FragmentOf(i).tree.items[Len(FragmentOf(i).tree.items)].bytes
    /\ \A k \in 1 .. Len(stack) :
           /\ stack[k].current_html_len = SumBytes(stack[k].items)
           /\ stack[k].items # <<>> =>
                  stack[k].current_html_len
                      - stack[k].items[Len(stack[k].items)].bytes <= 15 * 1024 * 1024

\* show has stored df_fat cut at 50 rows of a megabyte each, and the dict
\* "tables", cut off after its entry df_fat, whose item is larger than the
\* budget
C7_Witness ==
    /\ pc = "done"
    /\ \E i, j \in Stored :
           /\ FragmentOf(i).kind = "table"
           /\ FragmentOf(i).marker = <<50, 60>>
           /\ FragmentOf(i).bytes > 3 * 15 * 1024 * 1024
           /\ FragmentOf(j).kind = "tree-wrapper"
           /\ FragmentOf(j).tree.notice = <<1>>
           /\ Len(FragmentOf(j).tree.items) = 5
           /\ FragmentOf(j).tree.items[5].bytes > 15 * 1024 * 1024
           /\ FragmentOf(j).tree.items[1].body.rows = 0

\* render_recursive_html(data, level) run to its end in one piece, from the
\* state f of its loop: the tree it returns, or the exception that leaves it.
\* depth counts the calls in progress.
RECURSIVE RenderWhole(_, _)
RenderWhole(f, depth) ==
    IF f.it_pos = Len(f.entries) THEN Rendered(TreeOf(f, <<>>))
    ELSE IF f.raise_at = f.it_pos + 1 THEN Raised("access")
    ELSE
      LET key == f.entries[f.it_pos + 1].key
          val == Resolve(f.entries[f.it_pos + 1].val)
          g == [f EXCEPT !.it_pos = @ + 1, !.count = @ + 1]
      IN  IF BudgetExceeded(f) THEN Rendered(TreeOf(f, <<Remaining(f)>>))
          ELSE IF Descends(val) THEN
              IF depth >= MaxCallDepth THEN Raised("RecursionError")
              ELSE LET sub == RenderWhole(NewFrame(NestedData(val), f.level + 1),
                                          depth + 1)
                   IN  IF sub.raises THEN sub
                       ELSE RenderWhole(
                              WithItem(g, NestedItem(key, val, f.level, sub.out)),
                              depth)
          ELSE IF RenderEntry(key, val).raises THEN RenderEntry(key, val)
          ELSE RenderWhole(WithItem(g, RenderEntry(key, val).out), depth)

\* the fragment show stores for a named value, whatever else the snapshot
\* holds (lines 208-232)
ShownAlone(name, val) ==
    IF Descends(val)
    THEN LET r == RenderWhole(NewFrame(NestedData(val), 0), 1)
         IN  IF r.raises THEN ErrorBox(name, r.reason) ELSE TreeWrapper(r.out)
    ELSE IF FormatTop(val).raises THEN ErrorBox(name, FormatTop(val).reason)
    ELSE FormatTop(val).out

\* the values of TopIds whose formatting raises: at the top level (an object
\* whose str raises, an array of rank 0) or inside (an iterator that raises,
\* an entry whose str raises, a list that holds itself)
FailingIds == {"bad", "arr0", "trap", "holder", "cyc"}

\* C8: a named value whose formatting raises, at the top level or anywhere
\* inside it, gets an error fragment with its name and the reason; every
\* other named value of the snapshot, before or after it, gets the fragment
\* it gets without the failing value; show never stops before the document
\* is assembled.
C8_FailureIsolated ==
    /\ pc \in {"show", "render", "done"}
    /\ \A i \in Stored :
           /\ local_vars[i].val.id \in FailingIds =>
                  /\ FragmentOf(i).kind = "error"
                  /\ FragmentOf(i).name = local_vars[i].name
                  /\ FragmentOf(i).reason
                         \in {"str", "IndexError", "access", "RecursionError"}
           /\ local_vars[i].val.id \notin FailingIds =>
                  FragmentOf(i).kind # "error"
    /\ pc \in {"show", "done"} =>
           \A i \in Stored :
               FragmentOf(i) = ShownAlone(local_vars[i].name, ValueAt(i))
    /\ pc = "done" =>
           \A i \in 1 .. Len(local_vars) :
               Kept(i) => local_vars[i].name \in DOMAIN data_store

\* the document is assembled for a snapshot whose first value failed inside
\* its entries and whose second value is rendered as a tree
C8_Witness ==
    /\ pc = "done"
    /\ \E i, j \in Stored :
           /\ i < j
           /\ FragmentOf(i).kind = "error"
           /\ FragmentOf(i).reason \in {"access", "RecursionError"}
           /\ FragmentOf(j).kind = "tree-wrapper"
           /\ FragmentOf(j).tree.items # <<>>

\* the names show keeps, in the order of the snapshot
RECURSIVE KeptNames(_)
KeptNames(i) ==
    IF i = 0 THEN <<>>
    ELSE IF Kept(i) THEN Append(KeptNames(i - 1), local_vars[i].name)
    ELSE KeptNames(i - 1)

\* C9: after show the Summary List has one entry per named value that passed
\* the filter, in the snapshot's order, and the Content Map has the same
\* names with one fragment each, also for the values whose formatting
\* failed; no filtered name is in either.
C9_SummaryMatchesContent ==
    pc = "done" =>
        /\ [k \in 1 .. Len(summary_list) |-> summary_list[k].id]
               = KeptNames(Len(local_vars))
        /\ DOMAIN data_store = {local_vars[i].name : i \in Stored}
        /\ \A i \in 1 .. Len(local_vars) :
               ~Kept(i) =>
                   /\ local_vars[i].name \notin DOMAIN data_store
                   /\ \A k \in 1 .. Len(summary_list) :
                          summary_list[k].id # local_vars[i].name

\* show is done with a snapshot of a kept value whose formatting failed and
\* a filtered one (a callable, a module or a filtered name)
C9_Witness ==
    /\ pc = "done"
    /\ Len(local_vars) = 2
    /\ \E i, j \in 1 .. 2 :
           /\ Kept(i) /\ FragmentOf(i).kind = "error"
           /\ ~Kept(j)
    /\ Len(summary_list) = 1

\* The sample estimate_df_limit measures: its rows, and its bytes per row as
\* the fraction MeasuredNum / SampleSize.
SampleSize(df) == IF df.total_rows < 5 THEN df.total_rows ELSE 5
MeasuredNum(df) == df.head_bytes + SampleSize(df) * df.row_bytes - 100
EstRuns == {<<est_a, lim_a>>, <<est_b, lim_b>>}

\* C2: estimate_df_limit returns 0 for a table of zero rows, without rendering
\* a sample; for every table with rows it returns a limit between 50 and
\* 200000, and a sample measuring zero or negative bytes per row is taken as
\* 1 byte per row (the estimate is then the whole budget, cut to 200000).
C2_LimitRange ==
    \A run \in EstRuns :
        run[2].ran =>
            /\ run[1].total_rows = 0 => (run[2].limit = 0 /\ ~run[2].sampled)
            /\ run[1].total_rows > 0 =>
                   /\ run[2].limit \in 50 .. 200000
                   /\ MeasuredNum(run[1]) <= 0 => run[2].limit = 200000

C2_Witness ==
    /\ lim_a.ran /\ est_a.total_rows > 0 /\ MeasuredNum(est_a) < 0
    /\ lim_b.ran /\ est_b.total_rows = 0
    /\ lim_a.limit = 200000 /\ lim_b.limit = 0

\* C3: with the budget fixed, the limit depends on the sample only (two tables
\* with the same sample get the same limit, whatever their total rows), and a
\* sample with no more bytes per row than another gets no smaller a limit.
C3_SampleOnlyAndMonotone ==
    (lim_a.ran /\ lim_b.ran /\ est_a.total_rows > 0 /\ est_b.total_rows > 0) =>
        /\ ( /\ SampleSize(est_a) = SampleSize(est_b)
             /\ est_a.head_bytes = est_b.head_bytes
             /\ est_a.row_bytes = est_b.row_bytes
             /\ est_a.cols = est_b.cols ) => lim_a.limit = lim_b.limit
        /\ MeasuredNum(est_a) * SampleSize(est_b) <= MeasuredNum(est_b) * SampleSize(est_a)
               => lim_a.limit >= lim_b.limit

C3_Witness ==
    /\ lim_a.ran /\ lim_b.ran
    /\ est_a.total_rows = 3 /\ est_b.total_rows > 5
    /\ MeasuredNum(est_a) > 0
    /\ MeasuredNum(est_a) * SampleSize(est_b) < MeasuredNum(est_b) * SampleSize(est_a)
    /\ lim_a.limit > lim_b.limit /\ lim_b.limit > 50

\* ------------------------------------------------------------------------
\* The client runtime: loadVariable and the selection handlers that
\* makeTableSelectable attaches to the cells and headers of every table.
\*
\* An element is a record; it keeps the gen of the content it was created
\* with, so that the td of a reloaded fragment is another element than the
\* td at the same place of the fragment loaded before.  A table as
\* DataFrame.to_html writes it: row 0 is the thead's row of th, rows 1..rows
\* are the tbody's; cell 0 of every row is a th, cells 1..cols are td in the
\* tbody's rows.
\* ------------------------------------------------------------------------
MaxLoads == 2

\* contentData: for every id the tables of its fragment (a table, a tree
\* with two tables, a text box)
\* The text of a cell is the sequence of its characters.
contentData ==
    [df |-> << [rows |-> 3, cols |-> 2,
                text |-> << << <<"1">>, <<"a", "b">> >>,
                            << <<"-", "2", ".", "5">>, <<"N", "a", "N">> >>,
                            << <<"3", "0">>, <<"1", "2", "p", "x">> >> >>] >>,
     cfg |-> << [rows |-> 1, cols |-> 2,
                 text |-> << << <<"3">>, <<>> >> >>],
                [rows |-> 1, cols |-> 2,
                 text |-> << << <<" ", "7", " ">>, <<"N", "o", "n", "e">> >> >>] >>,
     txt |-> <<>>]

TableEl(g, t) == [kind |-> "table", gen |-> g, tbl |-> t]
CellEl(g, t, r, c, tag) ==
    [kind |-> "cell", gen |-> g, tbl |-> t, rowIndex |-> r, cellIndex |-> c,
     tagName |-> tag]
TableOf(cell) == TableEl(cell.gen, cell.tbl)

\* bodyEl.querySelectorAll('table')
DocTables ==
    IF loaded = "none" THEN {}
    ELSE {TableEl(gen, t) : t \in 1 .. Len(contentData[loaded])}
Shape(table) == contentData[loaded][table.tbl]

\* table.rows[r].cells[c], or NoEl where the table has none
CellAt(table, r, c) ==
    IF r \in 0 .. Shape(table).rows /\ c \in 0 .. Shape(table).cols
    THEN CellEl(table.gen, table.tbl, r, c,
                IF r = 0 \/ c = 0 THEN "TH" ELSE "TD")
    ELSE NoEl

\* table.querySelectorAll('td') and table.querySelectorAll('th')
TdOf(table) ==
    {CellAt(table, r, c) : r \in 1 .. Shape(table).rows,
                           c \in 1 .. Shape(table).cols}
ThOf(table) ==
    {CellAt(table, 0, c) : c \in 0 .. Shape(table).cols}
        \cup {CellAt(table, r, 0) : r \in 1 .. Shape(table).rows}

\* lines 546-555
updatePlotButton(btn, sel) ==
    IF Cardinality(sel) > 1
    THEN [display |-> "block",
          text |-> "Plot " \o ToString(Cardinality(sel)) \o " points"]
    ELSE [btn EXCEPT !.display = "none"]

\* document.querySelectorAll('.selected-cell').forEach(c =>
\* c.classList.remove('selected-cell')): what stays selected of sel
ClearSelection(sel) == {c \in sel : FALSE}

\* A faulty mousedown handler: the earlier selection is not cleared.
MouseDownKeepsSelection(sel, cell) == sel \cup {cell}

\* lines 474-475: the selection is cleared, the cell is selected
MouseDownSelection(sel, cell) == ClearSelection(sel) \cup {cell}

\* lines 521-542
selectRange(sel, table, start, end) ==
    LET minRow == Min(start.rowIndex, end.rowIndex)
        maxRow == Max(start.rowIndex, end.rowIndex)
        minCol == Min(start.cellIndex, end.cellIndex)
        maxCol == Max(start.cellIndex, end.cellIndex)
        range == {CellAt(table, r, c) : r \in minRow .. maxRow,
                                        c \in minCol .. maxCol}
    IN  ClearSelection(sel)
            \cup {cell \in range : cell # NoEl /\ cell.tagName = "TD"}

\* lines 496-515: what a click on the header th leaves selected
HeaderSelection(sel, table, th) ==
    LET below == {CellAt(table, r, th.cellIndex) : r \in 1 .. Shape(table).rows}
        beside == TdOf(table) \cap
                      {CellAt(table, th.rowIndex, c) : c \in 0 .. Shape(table).cols}
    IN  ClearSelection(sel)
            \cup IF th.rowIndex = 0
                 THEN {cell \in below : cell # NoEl /\ cell.tagName = "TD"}
                 ELSE beside

\* lines 448-460: a click on an item of the sidebar
LoadVariable ==
    \E id \in DOMAIN contentData :
        /\ gen < MaxLoads
        /\ loaded' = id
        /\ gen' = gen + 1
        /\ selected' = {}
        /\ plot_btn' = updatePlotButton(plot_btn, {})
        /\ last_action' = [kind |-> "load", id |-> id]
        /\ UNCHANGED <<isMouseDown, startCell, activeTable, pointer,
                       est_vars, show_vars, copy_vars, page_vars>>

\* lines 469-477: a button goes down on the td cell of table
MouseDownOn(table, cell, button) ==
    IF button # 0 THEN UNCHANGED vars
    ELSE /\ isMouseDown' = TRUE
         /\ startCell' = cell
         /\ activeTable' = table
         /\ selected' = MouseDownSelection(selected, cell)
         /\ plot_btn' = updatePlotButton(plot_btn, selected')
         /\ last_action' = [kind |-> "down", cell |-> cell]
         /\ pointer' = [held |-> TRUE, anchor |-> cell]
         /\ UNCHANGED <<loaded, gen, est_vars, show_vars, copy_vars, page_vars>>

MouseDown ==
    \E table \in DocTables : \E cell \in TdOf(table) : \E button \in {0, 2} :
        MouseDownOn(table, cell, button)

\* A faulty mouseover handler: the range starts at the cell entered before.
MouseOverMovesAnchor(table, cell) ==
    IF isMouseDown /\ activeTable = table /\ startCell # NoEl
    THEN /\ selected' = selectRange(selected, table, startCell, cell)
         /\ plot_btn' = updatePlotButton(plot_btn, selected')
         /\ last_action' = [kind |-> "drag", from |-> startCell, to |-> cell]
         /\ startCell' = cell
         /\ UNCHANGED <<loaded, gen, isMouseDown, activeTable, pointer,
                        est_vars, show_vars, copy_vars, page_vars>>
    ELSE UNCHANGED vars

\* lines 478-482: the pointer enters the td cell of table
MouseOverOn(table, cell) ==
    IF isMouseDown /\ activeTable = table /\ startCell # NoEl
    THEN /\ selected' = selectRange(selected, table, startCell, cell)
         /\ plot_btn' = updatePlotButton(plot_btn, selected')
         /\ last_action' = [kind |-> "drag", from |-> startCell, to |-> cell]
         /\ UNCHANGED <<loaded, gen, isMouseDown, startCell, activeTable,
                        pointer, est_vars, show_vars, copy_vars, page_vars>>
    ELSE UNCHANGED vars

MouseOver ==
    \E table \in DocTables : \E cell \in TdOf(table) : MouseOverOn(table, cell)

\* ------------------------------------------------------------------------
\* The resizers: makeColResizable (lines 766-797) and the sidebar (800-821)
\* ------------------------------------------------------------------------
MaxPresses == 2

\* #sidebar, as an element
SidebarEl ==
    [kind |-> "sidebar", gen |-> 0, tbl |-> 0, rowIndex |-> 0, cellIndex |-> 0,
     tagName |-> "DIV"]

\* e.clientX of the events
ClientXs == {100, 300}

\* window.innerWidth
InnerWidth == 1000
\* the width of a th the layout gives it when style.width is not set
AutoThWidth == 120
\* width, min-width and max-width (50%) of #sidebar in the style sheet
SidebarCssWidth == 300
SidebarMinWidth == 150

\* parseInt(window.getComputedStyle(el).width, 10)
ComputedWidth(el) ==
    IF el = SidebarEl
    THEN LET styled == IF el \in DOMAIN widths THEN widths[el] ELSE SidebarCssWidth
         IN  IF styled < SidebarMinWidth THEN SidebarMinWidth
             ELSE IF styled > InnerWidth \div 2 THEN InnerWidth \div 2
             ELSE styled
    ELSE IF el \in DOMAIN widths THEN widths[el] ELSE AutoThWidth

\* the functions mm and mu of the closure of owner's resizer
Listener(type, owner) == [type |-> type, owner |-> owner]

\* document.addEventListener: a listener already there is not added again
addEventListener(list, l) ==
    IF \E i \in DOMAIN list : list[i] = l THEN list ELSE Append(list, l)

\* document.removeEventListener
RECURSIVE removeEventListener(_, _)
removeEventListener(list, l) ==
    IF list = <<>> THEN <<>>
    ELSE IF list[1] = l THEN Tail(list)
    ELSE <<list[1]>> \o removeEventListener(Tail(list), l)

\* lines 775-782 and 804-810: md, the mousedown listener of owner's resizer
md(owner, clientX) ==
    /\ presses < MaxPresses
    /\ presses' = presses + 1
    /\ closures' = [o \in DOMAIN closures \cup {owner} |->
                       IF o = owner THEN [x |-> clientX, w |-> ComputedWidth(owner)]
                       ELSE closures[o]]
    /\ listeners' = addEventListener(
                        addEventListener(listeners, Listener("mousemove", owner)),
                        Listener("mouseup", owner))
    /\ drags' = drags \cup {owner}
    /\ UNCHANGED <<widths, heat_vars, sort_vars, ui_vars, copy_vars, est_vars,
                   show_vars>>

\* a button goes down on the resizer of a th: propagation stops there
ColResizerDown ==
    \E table \in DocTables : \E th \in ThOf(table) : \E clientX \in ClientXs :
        md(th, clientX)

\* a button goes down on #sidebar-resizer
SidebarResizerDown ==
    \E clientX \in ClientXs : md(SidebarEl, clientX)

\* lines 784-786 and 811-814: mm of owner's resizer, on the widths ws; a
\* negative length is no value of width and the assignment is dropped
mm(ws, owner, clientX) ==
    LET newW == closures[owner].w + (clientX - closures[owner].x)
        set == [o \in DOMAIN ws \cup {owner} |-> IF o = owner THEN newW ELSE ws[o]]
    IN  IF owner = SidebarEl
        THEN IF newW > 100 /\ 10 * newW < 6 * InnerWidth THEN set ELSE ws
        ELSE IF newW >= 0 THEN set ELSE ws

\* the mousemove listeners of the document run in the order they were added
RECURSIVE RunMouseMove(_, _, _)
RunMouseMove(list, ws, clientX) ==
    IF list = <<>> THEN ws
    ELSE RunMouseMove(Tail(list),
                      IF list[1].type = "mousemove"
                      THEN mm(ws, list[1].owner, clientX) ELSE ws,
                      clientX)

\* the pointer moves: a mousemove event reaches the document
MouseMove ==
    \E clientX \in ClientXs :
        /\ widths' = RunMouseMove(listeners, widths, clientX)
        /\ UNCHANGED <<listeners, closures, drags, presses, heat_vars, sort_vars,
                       ui_vars, copy_vars, est_vars, show_vars>>

\* A faulty mu: the mousemove listener stays.
muLeavesMove(list, owner) ==
    removeEventListener(list, Listener("mouseup", owner))

\* lines 788-792 and 815-819: mu of owner's resizer, on the listeners
mu(list, owner) ==
    removeEventListener(removeEventListener(list, Listener("mousemove", owner)),
                        Listener("mouseup", owner))

\* the mouseup listeners that were on the document when the event came run
RECURSIVE RunMouseUp(_, _)
RunMouseUp(todo, list) ==
    IF todo = <<>> THEN list
    ELSE RunMouseUp(Tail(todo),
                    IF todo[1].type = "mouseup" THEN mu(list, todo[1].owner)
                    ELSE list)

\* a button goes up anywhere in the document: the listener of line 650 and
\* the mouseup listeners the resizers have added
MouseUp ==
    /\ isMouseDown' = FALSE
    /\ pointer' = [pointer EXCEPT !.held = FALSE]
    /\ listeners' = RunMouseUp(listeners, listeners)
    /\ closures' = [o \in {listeners'[i].owner : i \in DOMAIN listeners'} |->
                       closures[o]]
    /\ drags' = drags \ {listeners[i].owner :
                            i \in {j \in DOMAIN listeners : listeners[j].type = "mouseup"}}
    /\ UNCHANGED <<loaded, gen, startCell, activeTable, selected, plot_btn,
                   last_action, est_vars, show_vars, copy_vars, heat_vars,
                   sort_vars, widths, presses>>

\* lines 491-517: a click on a th, or on the resizer inside it
HeaderClick ==
    \E table \in DocTables : \E th \in ThOf(table) : \E on_resizer \in BOOLEAN :
        IF on_resizer THEN UNCHANGED vars
        ELSE /\ selected' = HeaderSelection(selected, table, th)
             /\ plot_btn' = updatePlotButton(plot_btn, selected')
             /\ last_action' = [kind |-> "header", th |-> th]
             /\ UNCHANGED <<loaded, gen, isMouseDown, startCell, activeTable,
                            pointer, est_vars, show_vars, copy_vars, page_vars>>

\* ------------------------------------------------------------------------
\* copySelection (lines 557-594), the keydown listener of the document
\* ------------------------------------------------------------------------
MaxTimers == 1

\* cell.textContent
TextOf(cell) == contentData[loaded][cell.tbl].text[cell.rowIndex][cell.cellIndex]

WhiteSpace == {" ", "\t", "\n"}

RECURSIVE TrimStart(_)
TrimStart(t) ==
    IF t # <<>> /\ t[1] \in WhiteSpace THEN TrimStart(Tail(t)) ELSE t

RECURSIVE TrimEnd(_)
TrimEnd(t) ==
    IF t # <<>> /\ t[Len(t)] \in WhiteSpace
    THEN TrimEnd(SubSeq(t, 1, Len(t) - 1)) ELSE t

\* String.prototype.trim
trim(t) == TrimEnd(TrimStart(t))

\* Array.prototype.join over texts
RECURSIVE join(_, _)
join(texts, sep) ==
    IF texts = <<>> THEN <<>>
    ELSE IF Len(texts) = 1 THEN texts[1]
    ELSE texts[1] \o <<sep>> \o join(Tail(texts), sep)

\* sort((a, b) => a - b) of the keys of rows
RECURSIVE SortAscending(_)
SortAscending(S) ==
    IF S = {} THEN <<>>
    ELSE LET least == CHOOSE x \in S : \A y \in S : x <= y
         IN  <<least>> \o SortAscending(S \ {least})

\* cells.sort((a, b) => a.cellIndex - b.cellIndex); the sort is stable, and
\* the cells come in document order
RECURSIVE SortByCellIndex(_)
SortByCellIndex(cells) ==
    IF cells = {} THEN <<>>
    ELSE LET first == CHOOSE c \in cells : \A d \in cells :
                          \/ c.cellIndex < d.cellIndex
                          \/ c.cellIndex = d.cellIndex /\ c.tbl <= d.tbl
         IN  <<first>> \o SortByCellIndex(cells \ {first})

\* A faulty copy: the comparator of the rows is b - a.
CopyTsvRowsDescending(sel) ==
    LET rowIndices == SortAscending({c.rowIndex : c \in sel})
        n == Len(rowIndices)
        line(idx) ==
            LET cells == SortByCellIndex({c \in sel : c.rowIndex = idx})
            IN  join([k \in 1 .. Len(cells) |-> trim(TextOf(cells[k]))], "\t")
    IN  join([i \in 1 .. n |-> line(rowIndices[n + 1 - i])], "\n")

\* lines 563-577: the text put on the clipboard
CopyTsv(sel) ==
    LET rowIndices == SortAscending({c.rowIndex : c \in sel})
        line(idx) ==
            LET cells == SortByCellIndex({c \in sel : c.rowIndex = idx})
            IN  join([k \in 1 .. Len(cells) |-> trim(TextOf(cells[k]))], "\t")
    IN  join([i \in 1 .. Len(rowIndices) |-> line(rowIndices[i])], "\n")

\* a keydown anywhere in the document
CopySelection ==
    \E ctrl \in BOOLEAN : \E key \in {"c", "v"} :
        IF ~(ctrl /\ key = "c") \/ selected = {} THEN UNCHANGED vars
        ELSE /\ copied' = [tsv |-> CopyTsv(selected),
                            from |-> {[rowIndex |-> c.rowIndex,
                                       cellIndex |-> c.cellIndex,
                                       text |-> TextOf(c)] : c \in selected}]
             /\ IF plot_btn.display # "none"
                THEN /\ Len(timers) < MaxTimers
                     /\ plot_btn' = [plot_btn EXCEPT !.text = "Copied!"]
                     /\ timers' = Append(timers, plot_btn.text)
                ELSE UNCHANGED <<plot_btn, timers>>
             /\ UNCHANGED <<page_vars, plot_out, loaded, gen, isMouseDown, startCell, activeTable,
                            selected, last_action, pointer, est_vars, show_vars>>

\* line 591: the callback of the oldest pending timer runs
TimerFires ==
    /\ timers # <<>>
    /\ plot_btn' = [plot_btn EXCEPT !.text = Head(timers)]
    /\ timers' = Tail(timers)
    /\ UNCHANGED <<loaded, gen, isMouseDown, startCell, activeTable, selected,
                   last_action, pointer, copied, plot_out, est_vars, show_vars,
                   page_vars>>

\* ------------------------------------------------------------------------
\* plotData (lines 598-648), the onclick of #plot-btn
\* ------------------------------------------------------------------------
DecimalDigit == {"0", "1", "2", "3", "4", "5", "6", "7", "8", "9"}
DigitValue(d) == CHOOSE n \in 0 .. 9 : ToString(n) = d

\* the longest prefix of t made of decimal digits
RECURSIVE TakeDigits(_)
TakeDigits(t) ==
    IF t # <<>> /\ t[1] \in DecimalDigit
    THEN <<t[1]>> \o TakeDigits(Tail(t)) ELSE <<>>

RECURSIVE IntegerOf(_)
IntegerOf(ds) ==
    IF ds = <<>> THEN 0
    ELSE 10 * IntegerOf(SubSeq(ds, 1, Len(ds) - 1)) + DigitValue(ds[Len(ds)])

\* the first two digits after the point, in hundredths
HundredthsOf(ds) ==
    (IF Len(ds) >= 1 THEN 10 * DigitValue(ds[1]) ELSE 0)
        + (IF Len(ds) >= 2 THEN DigitValue(ds[2]) ELSE 0)

NaN == [nan |-> TRUE]

\* parseFloat: the longest prefix of the text that is a decimal number
\* (sign, digits, point, digits), whatever follows it; NaN when there is
\* none.  Numbers are kept in hundredths.
parseFloat(txt) ==
    LET t == TrimStart(txt)
        signed == t # <<>> /\ t[1] \in {"+", "-"}
        u == IF signed THEN Tail(t) ELSE t
        int_part == TakeDigits(u)
        rest == SubSeq(u, Len(int_part) + 1, Len(u))
        frac_part == IF rest # <<>> /\ rest[1] = "." THEN TakeDigits(Tail(rest))
                     ELSE <<>>
        magnitude == 100 * IntegerOf(int_part) + HundredthsOf(frac_part)
    IN  IF int_part = <<>> /\ frac_part = <<>> THEN NaN
        ELSE [nan |-> FALSE,
              val |-> IF signed /\ t[1] = "-" THEN 0 - magnitude ELSE magnitude]

\* document.querySelectorAll('.selected-cell'): the cells in document order
RECURSIVE DocumentOrder(_)
DocumentOrder(cells) ==
    IF cells = {} THEN <<>>
    ELSE LET first == CHOOSE c \in cells : \A d \in cells \ {c} :
                          \/ c.tbl < d.tbl
                          \/ c.tbl = d.tbl /\ c.rowIndex < d.rowIndex
                          \/ /\ c.tbl = d.tbl /\ c.rowIndex = d.rowIndex
                             /\ c.cellIndex < d.cellIndex
         IN  <<first>> \o DocumentOrder(cells \ {first})

\* lines 600-607: data, from the cells in order
RECURSIVE PlotValues(_)
PlotValues(cells) ==
    IF cells = <<>> THEN <<>>
    ELSE LET txt == trim(TextOf(cells[1]))
             keep == /\ txt # <<>>
                     /\ txt # <<"N", "a", "N">>
                     /\ txt # <<"N", "o", "n", "e">>
                     /\ ~parseFloat(txt).nan
         IN  (IF keep THEN <<parseFloat(txt).val>> ELSE <<>>)
                 \o PlotValues(Tail(cells))

\* A faulty plotData: one value is enough to plot.
PlotOutcomeOneIsEnough(data) ==
    IF Len(data) < 1 THEN [alerts |-> 1, windows |-> <<>>]
    ELSE [alerts |-> 0, windows |-> <<data>>]

\* lines 609-647: the alert, or the window with the series
PlotOutcome(data) ==
    IF Len(data) < 2 THEN [alerts |-> 1, windows |-> <<>>]
    ELSE [alerts |-> 0, windows |-> <<data>>]

\* a click on #plot-btn, which shows when more than one cell is selected
PlotData ==
    /\ plot_btn.display = "block"
    /\ LET out == PlotOutcome(PlotValues(DocumentOrder(selected)))
       IN  plot_out' = [alerts |-> out.alerts, windows |-> out.windows,
                        from |-> {[tbl |-> c.tbl, rowIndex |-> c.rowIndex,
                                   cellIndex |-> c.cellIndex,
                                   text |-> TextOf(c)] : c \in selected}]
    /\ UNCHANGED <<ui_vars, copied, timers, est_vars, show_vars, page_vars>>

\* ------------------------------------------------------------------------
\* applyHeatmap (lines 725-764)
\* ------------------------------------------------------------------------
MaxHeatCells == 4

\* the cell texts of the tables: two numbers, the placeholders, a word
HeatTexts == {<<"1">>, <<"2">>, <<>>, <<"N", "a", "N">>, <<"x">>}

\* the tbody of a table of to_html: each row its label, then the data cells
HeatTables ==
    UNION {
        {[r \in 1 .. nrows |-> <<<<ToString(r - 1)>>>> \o data[r]] :
            data \in [1 .. nrows -> [1 .. ncols -> HeatTexts]]} :
        <<nrows, ncols>> \in {sh \in (1 .. MaxHeatCells) \X (1 .. MaxHeatCells) :
                                 sh[1] * sh[2] <= MaxHeatCells}}

\* style.backgroundColor unset; a colour is <<red, green, blue>>
NoColor == <<>>

\* lines 737-745: the scan of column c from row r on, with the values
\* gathered so far; it stops at the first cell that is not a number
RECURSIVE ScanColumn(_, _, _, _)
\* A faulty scan: a cell that is not a number is passed over.
ScanColumnPassesOver(table, c, r, cells) ==
    IF r > Len(table) THEN [isNumeric |-> TRUE, cells |-> cells]
    ELSE LET txt == trim(table[r][c])
             num == parseFloat(txt)
         IN  IF txt = <<>> \/ txt = <<"N", "a", "N">> \/ txt = <<"N", "o", "n", "e">>
                  \/ num.nan
             THEN ScanColumn(table, c, r + 1, cells)
             ELSE ScanColumn(table, c, r + 1,
                             Append(cells, [row |-> r, col |-> c, val |-> num.val]))

ScanColumn(table, c, r, cells) ==
    IF r > Len(table) THEN [isNumeric |-> TRUE, cells |-> cells]
    ELSE LET txt == trim(table[r][c])
             num == parseFloat(txt)
         IN  IF txt = <<>> \/ txt = <<"N", "a", "N">> \/ txt = <<"N", "o", "n", "e">>
             THEN ScanColumn(table, c, r + 1, cells)
             ELSE IF num.nan THEN [isNumeric |-> FALSE, cells |-> cells]
             ELSE ScanColumn(table, c, r + 1,
                             Append(cells, [row |-> r, col |-> c, val |-> num.val]))

\* lines 735-752: allCells, over the columns after the first
RECURSIVE GatherCells(_, _)
GatherCells(table, c) ==
    IF c > Len(table[1]) THEN <<>>
    ELSE LET col == ScanColumn(table, c, 1, <<>>)
         IN  (IF col.isNumeric /\ col.cells # <<>> THEN col.cells ELSE <<>>)
                 \o GatherCells(table, c + 1)

ValuesOf(cells) == {cells[i].val : i \in DOMAIN cells}
Minimum(S) == CHOOSE v \in S : \A w \in S : v <= w
Maximum(S) == CHOOSE v \in S : \A w \in S : v >= w

\* Math.round of n / d, for n >= 0 and d > 0
Round(n, d) == (2 * n + d) \div (2 * d)

\* A faulty range: the minimum and maximum of the cell's own column.
HeatRangeOfColumn(allCells, item) ==
    LET own == {allCells[i].val : i \in {j \in DOMAIN allCells :
                                            allCells[j].col = item.col}}
    IN  [min |-> Minimum(own), max |-> Maximum(own)]

\* lines 756-757: one minimum and one maximum for the table
HeatRange(allCells, item) ==
    [min |-> Minimum(ValuesOf(allCells)), max |-> Maximum(ValuesOf(allCells))]

\* lines 759-763: the colour of one gathered cell
HeatColor(allCells, item) ==
    LET range == HeatRange(allCells, item)
    IN  IF range.min = range.max THEN NoColor
        ELSE <<Round(255 * (item.val - range.min), range.max - range.min), 0,
               Round(255 * (range.max - item.val), range.max - range.min)>>

\* applyHeatmap(table): the background colour of every cell afterwards
applyHeatmap(table, before) ==
    IF Len(table) = 0 THEN before
    ELSE LET allCells == GatherCells(table, 2)
             all == ValuesOf(allCells)
         IN  IF allCells = <<>> \/ Minimum(all) = Maximum(all) THEN before
             ELSE [r \in DOMAIN table |-> [c \in DOMAIN table[r] |->
                      IF \E i \in DOMAIN allCells :
                             allCells[i].row = r /\ allCells[i].col = c
                      THEN HeatColor(allCells,
                               allCells[CHOOSE i \in DOMAIN allCells :
                                   allCells[i].row = r /\ allCells[i].col = c])
                      ELSE before[r][c]]]

ApplyHeatmap ==
    /\ hm_table # <<>>
    /\ ~hm_applied
    /\ hm_color' = applyHeatmap(hm_table, hm_color)
    /\ hm_applied' = TRUE
    /\ UNCHANGED <<hm_table, sort_vars, resize_vars, est_vars, show_vars, ui_vars,
                   copy_vars>>

InitHeatmap ==
    /\ hm_table \in HeatTables
    /\ hm_color = [r \in DOMAIN hm_table |-> [c \in DOMAIN hm_table[r] |-> NoColor]]
    /\ hm_applied = FALSE
    /\ SortIdle
    /\ ResizeIdle
    /\ UIIdle
    /\ EstIdle
    /\ ShowIdle

SpecHeatmap == InitHeatmap /\ [][ApplyHeatmap]_vars

\* ------------------------------------------------------------------------
\* The sidebar: the change handler of #sort-select (lines 416-428) and
\* renderList (430-446)
\* ------------------------------------------------------------------------
MaxNames == 3

\* names for the variables of a snapshot
NamePool == {<<"a">>, <<"a", "b">>, <<"b">>, <<"B">>}

\* the lists of up to MaxNames names, each once (the keys of a dict)
NameLists ==
    UNION {{l \in [1 .. n -> NamePool] : \A i, j \in 1 .. n : i # j => l[i] # l[j]} :
           n \in 0 .. MaxNames}

LowerCase == <<"a", "b", "c", "d", "e", "f", "g", "h", "i", "j", "k", "l", "m",
               "n", "o", "p", "q", "r", "s", "t", "u", "v", "w", "x", "y", "z">>
UpperCase == <<"A", "B", "C", "D", "E", "F", "G", "H", "I", "J", "K", "L", "M",
               "N", "O", "P", "Q", "R", "S", "T", "U", "V", "W", "X", "Y", "Z">>
IsUpper(ch) == \E i \in DOMAIN UpperCase : UpperCase[i] = ch
LetterRank(ch) == CHOOSE i \in DOMAIN LowerCase : LowerCase[i] = ch \/ UpperCase[i] = ch

\* the first difference of two names by letter, case apart: -1, 0 or 1
RECURSIVE CompareLetters(_, _)
CompareLetters(a, b) ==
    IF a = <<>> /\ b = <<>> THEN 0
    ELSE IF a = <<>> THEN 0 - 1
    ELSE IF b = <<>> THEN 1
    ELSE IF LetterRank(a[1]) < LetterRank(b[1]) THEN 0 - 1
    ELSE IF LetterRank(a[1]) > LetterRank(b[1]) THEN 1
    ELSE CompareLetters(Tail(a), Tail(b))

\* the first difference of two names of the same letters by case, small first
RECURSIVE CompareCase(_, _)
CompareCase(a, b) ==
    IF a = <<>> \/ b = <<>> THEN 0
    ELSE IF ~IsUpper(a[1]) /\ IsUpper(b[1]) THEN 0 - 1
    ELSE IF IsUpper(a[1]) /\ ~IsUpper(b[1]) THEN 1
    ELSE CompareCase(Tail(a), Tail(b))

\* a.localeCompare(b) on names of letters: the letters decide, then the case
localeCompare(a, b) ==
    IF CompareLetters(a, b) # 0 THEN CompareLetters(a, b) ELSE CompareCase(a, b)

\* the comparator of line 421 (ascending) or 423 (descending)
Comparator(a, b, descending) ==
    IF descending THEN localeCompare(b, a) ELSE localeCompare(a, b)

\* Array.prototype.sort, stable: x goes behind the items not after it
RECURSIVE InsertSorted(_, _, _)
InsertSorted(x, list, descending) ==
    IF list = <<>> THEN <<x>>
    ELSE IF Comparator(list[1], x, descending) <= 0
         THEN <<list[1]>> \o InsertSorted(x, Tail(list), descending)
         ELSE <<x>> \o list

RECURSIVE sort(_, _)
sort(list, descending) ==
    IF list = <<>> THEN <<>>
    ELSE InsertSorted(list[Len(list)],
                      sort(SubSeq(list, 1, Len(list) - 1), descending), descending)

RECURSIVE reverse(_)
reverse(list) ==
    IF list = <<>> THEN <<>> ELSE Append(reverse(Tail(list)), list[1])

\* lines 420-426 on an array
Sorted(list, mode) ==
    IF mode = "alpha" THEN sort(list, FALSE)
    ELSE IF mode = "alpha-desc" THEN sort(list, TRUE)
    ELSE IF mode = "created-desc" THEN reverse(list)
    ELSE list

\* A faulty handler: sorted is the array variables itself, sorted in place.
SortHandlerInPlace(array, mode) ==
    [variables |-> Sorted(array, mode), items |-> Sorted(array, mode)]

\* lines 417-427: sorted is a copy of variables; what the handler leaves in
\* variables and what it passes to renderList
SortHandler(array, mode) ==
    [variables |-> array, items |-> Sorted(array, mode)]

SortModes == {"created", "created-desc", "alpha", "alpha-desc"}

\* the change event of #sort-select: another option is chosen
SortChange ==
    \E mode \in SortModes :
        /\ mode # sort_mode
        /\ sort_mode' = mode
        /\ variables' = SortHandler(variables, mode).variables
        /\ listEl' = SortHandler(variables, mode).items
        /\ UNCHANGED <<json_vars, heat_vars, resize_vars, est_vars, show_vars,
                       ui_vars, copy_vars>>

InitSort ==
    /\ json_vars \in NameLists
    /\ variables = json_vars
    /\ listEl = variables
    /\ sort_mode = "created"
    /\ HeatIdle
    /\ ResizeIdle
    /\ UIIdle
    /\ EstIdle
    /\ ShowIdle

SpecSort == InitSort /\ [][SortChange]_vars

InitUI ==
    /\ UIIdle
    /\ PageIdle
    /\ EstIdle
    /\ ShowIdle

NextUI == LoadVariable \/ MouseDown \/ MouseOver \/ MouseUp \/ HeaderClick

SpecUI == InitUI /\ [][NextUI]_vars

NextCopy ==
    \/ LoadVariable \/ MouseDown \/ MouseOver
    \/ CopySelection \/ TimerFires

SpecCopy == InitUI /\ [][NextCopy]_vars

\* the page with the value df, a table, loaded: the state loadVariable leaves
InitResize ==
    /\ loaded = "df"
    /\ gen = 1
    /\ isMouseDown = FALSE
    /\ startCell = NoEl
    /\ activeTable = NoEl
    /\ selected = {}
    /\ plot_btn = updatePlotButton([display |-> "", text |-> "Plot Selection"], {})
    /\ last_action = [kind |-> "load", id |-> loaded]
    /\ pointer = [held |-> FALSE, anchor |-> NoEl]
    /\ copied = [tsv |-> <<>>, from |-> {}]
    /\ timers = <<>>
    /\ plot_out = [alerts |-> 0, windows |-> <<>>, from |-> {}]
    /\ PageIdle
    /\ EstIdle
    /\ ShowIdle

NextResize ==
    \/ HeaderClick \/ MouseUp
    \/ ColResizerDown \/ SidebarResizerDown \/ MouseMove

SpecResize == InitResize /\ [][NextResize]_vars

NextPlot ==
    \/ LoadVariable \/ MouseDown \/ MouseOver \/ HeaderClick \/ PlotData

SpecPlot == InitUI /\ [][NextPlot]_vars

\* ------------------------------------------------------------------------
\* Properties of the client runtime (SpecUI)
\* ------------------------------------------------------------------------
\* the data cells a selection action covers, by their place in the grid: the
\* cell pressed; the cells between the cell pressed and the cell entered; the
\* data cells below a column header or beside a row header; none after a load
ActionCells(a) ==
    IF a.kind = "down" THEN {a.cell}
    ELSE IF a.kind = "drag" THEN
        {c \in TdOf(TableOf(a.to)) :
            /\ \/ a.from.rowIndex <= c.rowIndex /\ c.rowIndex <= a.to.rowIndex
               \/ a.to.rowIndex <= c.rowIndex /\ c.rowIndex <= a.from.rowIndex
            /\ \/ a.from.cellIndex <= c.cellIndex /\ c.cellIndex <= a.to.cellIndex
               \/ a.to.cellIndex <= c.cellIndex /\ c.cellIndex <= a.from.cellIndex}
    ELSE IF a.kind = "header" THEN
        {c \in TdOf(TableOf(a.th)) :
            IF a.th.rowIndex = 0 THEN c.cellIndex = a.th.cellIndex
            ELSE c.rowIndex = a.th.rowIndex}
    ELSE {}

\* C10: after any sequence of pointer-down on a cell, pointer-over,
\* pointer-up, column-header click, row-header click and value load, at most
\* one selection is active: the selected cells all belong to one table of the
\* loaded content and are exactly the cells of the most recent selection
\* action; no cell of an earlier selection stays selected, and a load leaves
\* nothing selected.
C10_SingleSelection ==
    /\ \A c, d \in selected :
           /\ TableOf(c) = TableOf(d)
           /\ TableOf(c) \in DocTables
    /\ selected = ActionCells(last_action)
    /\ last_action.kind = "drag" =>
           /\ TableOf(last_action.from) = TableOf(last_action.to)
           /\ TableOf(last_action.to) \in DocTables

\* a column of the second table is selected in content that was loaded while
\* a press on a cell of the content loaded before it is still held
C10_Witness ==
    /\ loaded = "cfg" /\ gen = 2
    /\ last_action.kind = "header"
    /\ last_action.th.tbl = 2 /\ last_action.th.rowIndex = 0
    /\ Cardinality(selected) = 1
    /\ startCell # NoEl /\ startCell.gen = 1
    /\ activeTable.tbl = 1
    /\ isMouseDown

\* the data cells of the table of cells a and b that lie between them, rows
\* and columns inclusive
RectCells(a, b) ==
    {c \in TdOf(TableOf(a)) :
        /\ Min(a.rowIndex, b.rowIndex) <= c.rowIndex
        /\ c.rowIndex <= Max(a.rowIndex, b.rowIndex)
        /\ Min(a.cellIndex, b.cellIndex) <= c.cellIndex
        /\ c.cellIndex <= Max(a.cellIndex, b.cellIndex)}

\* the pointer is held since a press of the primary button on a cell of table
HeldOn(table) ==
    pointer.held /\ pointer.anchor # NoEl /\ TableOf(pointer.anchor) = table

\* C11: while the pointer is held after a pointer-down on an anchor cell,
\* every pointer-over on a cell of the same table sets the selection to
\* exactly the data cells between the anchor and that cell, rows and columns
\* inclusive; the anchor stays the pointer-down cell for the whole drag; after
\* pointer-up no pointer-over changes anything until the next pointer-down.
\* (Pointer-down is a press of the primary button, the only one the handler
\* of line 470 takes.)
C11_DragRectangle ==
    /\ pointer.held => (isMouseDown /\ startCell = pointer.anchor)
    /\ \A table \in DocTables : \A cell \in TdOf(table) :
           /\ HeldOn(table) =>
                  /\ ENABLED (MouseOverOn(table, cell)
                                /\ selected' = RectCells(pointer.anchor, cell)
                                /\ startCell' = pointer.anchor)
                  /\ ~ENABLED (MouseOverOn(table, cell)
                                 /\ ~(/\ selected' = RectCells(pointer.anchor, cell)
                                      /\ startCell' = pointer.anchor
                                      /\ pointer' = pointer))
           /\ ~pointer.held =>
                  ~ENABLED (MouseOverOn(table, cell) /\ vars' # vars)

\* a drag from the anchor (3, 2) up to (1, 1) of the 3 x 2 table has selected
\* its six data cells, after an earlier pointer-over had selected fewer
C11_Witness ==
    /\ pointer.held
    /\ pointer.anchor.rowIndex = 3 /\ pointer.anchor.cellIndex = 2
    /\ last_action.kind = "drag"
    /\ last_action.to.rowIndex = 1 /\ last_action.to.cellIndex = 1
    /\ Cardinality(selected) = 6
    /\ loaded = "df"

\* the lines of a copied text, each as its fields: the text is cut at every
\* newline and every line at every tab
RECURSIVE Split(_, _)
Split(t, sep) ==
    IF \A k \in 1 .. Len(t) : t[k] # sep THEN <<t>>
    ELSE LET at == CHOOSE k \in 1 .. Len(t) :
                       t[k] = sep /\ \A j \in 1 .. k - 1 : t[j] # sep
         IN  <<SubSeq(t, 1, at - 1)>> \o Split(SubSeq(t, at + 1, Len(t)), sep)

Lines(t) == [i \in 1 .. Len(Split(t, "\n")) |-> Split(Split(t, "\n")[i], "\t")]

\* the k-th smallest element of a set of numbers
Kth(S, k) == CHOOSE x \in S : Cardinality({y \in S : y < x}) = k - 1

\* C12: for every non-empty selection the copy command produces one line per
\* selected row in ascending row index, each line holding that row's selected
\* cells in ascending column index separated by tabs, however the selection
\* was made; the text of a cell is taken without the white space around it.
C12_CopyRowMajor ==
    copied.from # {} =>
        LET rows == {c.rowIndex : c \in copied.from}
            cols(r) == {c.cellIndex : c \in {d \in copied.from : d.rowIndex = r}}
            cell(r, k) == CHOOSE c \in copied.from :
                              c.rowIndex = r /\ c.cellIndex = k
        IN  /\ Len(Lines(copied.tsv)) = Cardinality(rows)
            /\ \A i \in 1 .. Cardinality(rows) :
                   LET r == Kth(rows, i)
                   IN  /\ Len(Lines(copied.tsv)[i]) = Cardinality(cols(r))
                       /\ \A j \in 1 .. Cardinality(cols(r)) :
                              Lines(copied.tsv)[i][j]
                                  = trim(cell(r, Kth(cols(r), j)).text)

\* the 3 x 2 table, selected by a drag from its last cell up to its first,
\* was copied: three lines of two fields
C12_Witness ==
    /\ Cardinality(copied.from) = 6
    /\ loaded = "df"
    /\ last_action.kind = "drag"
    /\ last_action.from.rowIndex = 3 /\ last_action.to.rowIndex = 1
    /\ Len(Lines(copied.tsv)) = 3
    /\ \A i \in 1 .. 3 : Len(Lines(copied.tsv)[i]) = 2
    /\ Lines(copied.tsv)[1][1] = <<"1">>
    /\ Lines(copied.tsv)[3][2] = <<"1", "2", "p", "x">>

\* a text that begins with a decimal number: an optional sign, then a digit,
\* or a point and a digit
BeginsWithNumber(t) ==
    LET u == IF t # <<>> /\ t[1] \in {"+", "-"} THEN Tail(t) ELSE t
    IN  \/ u # <<>> /\ u[1] \in DecimalDigit
        \/ Len(u) >= 2 /\ u[1] = "." /\ u[2] \in DecimalDigit

\* the cells plotData counts: not empty, not 'NaN', not 'None', and numeric
\* as parseFloat reads a text, by the number it begins with
ValidNumeric(cells) ==
    {c \in cells :
        /\ trim(c.text) \notin {<<>>, <<"N", "a", "N">>, <<"N", "o", "n", "e">>}
        /\ BeginsWithNumber(trim(c.text))}

\* how many cells of S come before c, by row and then by column
Before(S, c) ==
    Cardinality({d \in S : \/ d.rowIndex < c.rowIndex
                           \/ d.rowIndex = c.rowIndex /\ d.cellIndex < c.cellIndex})

DataColumns == IF hm_table = <<>> THEN {} ELSE 2 .. Len(hm_table[1])

Placeholder(t) == trim(t) \in {<<>>, <<"N", "a", "N">>, <<"N", "o", "n", "e">>}

\* the table with every cell of column c emptied
WithoutColumn(table, c) ==
    [r \in DOMAIN table |-> [k \in DOMAIN table[r] |->
        IF k = c THEN <<>> ELSE table[r][k]]]

\* C14: a column other than the label column that holds at least one cell
\* which is not empty, not 'NaN' or 'None' and does not parse as a number gets
\* no colour on any cell, and the other cells are coloured as if the column
\* were empty (it contributes nothing to the minimum and maximum), wherever
\* in the column that cell is.
C14_NonNumericColumnSkipped ==
    hm_applied =>
        \A c \in DataColumns :
            (\E r \in DOMAIN hm_table :
                 /\ ~Placeholder(hm_table[r][c])
                 /\ ~BeginsWithNumber(trim(hm_table[r][c])))
            => /\ \A r \in DOMAIN hm_table : hm_color[r][c] = NoColor
               /\ LET blank == [r \in DOMAIN hm_table |->
                                   [k \in DOMAIN hm_table[r] |-> NoColor]]
                      other == applyHeatmap(WithoutColumn(hm_table, c), blank)
                  IN  \A r \in DOMAIN hm_table : \A k \in DOMAIN hm_table[r] :
                          k # c => hm_color[r][k] = other[r][k]

\* the word is the last cell of the second column, under a number that
\* would widen the range: the first column, uniform, stays without colour
C14_Witness ==
    /\ hm_applied
    /\ Len(hm_table) = 2
    /\ Len(hm_table[1]) = 3
    /\ <<hm_table[1][2], hm_table[2][2]>> = <<<<"1">>, <<"1">>>>
    /\ <<hm_table[1][3], hm_table[2][3]>> = <<<<"2">>, <<"x">>>>
    /\ \A r \in 1 .. 2 : \A c \in 1 .. 3 : hm_color[r][c] = NoColor

\* a data column all of whose cells hold one and the same number
UniformColumn(c) ==
    /\ \A r \in DOMAIN hm_table : BeginsWithNumber(trim(hm_table[r][c]))
    /\ \A r, q \in DOMAIN hm_table :
           parseFloat(hm_table[r][c]).val = parseFloat(hm_table[q][c]).val

\* C15, as stated: a numeric column whose cells all hold the same value gets
\* no colour on any cell, whatever the other columns contain.
C15_UniformColumnNoColour ==
    hm_applied =>
        \A c \in DataColumns :
            UniformColumn(c) => \A r \in DOMAIN hm_table : hm_color[r][c] = NoColor

\* the numbers of the cells of the columns that are coloured: the columns
\* with a number and with nothing else but placeholders
ColorableValues ==
    {parseFloat(hm_table[r][c]).val :
        <<r, c>> \in {rc \in (DOMAIN hm_table) \X DataColumns :
            /\ ~Placeholder(hm_table[rc[1]][rc[2]])
            /\ \A q \in DOMAIN hm_table :
                   \/ Placeholder(hm_table[q][rc[2]])
                   \/ BeginsWithNumber(trim(hm_table[q][rc[2]]))}}

\* C15, amended: the range is the table's.  No cell of the table gets a
\* colour when the cells of its numeric columns all hold one value; a
\* uniform column in a table whose numeric columns hold other values too
\* gets one and the same colour on every cell, the one of its value in the
\* range of the table.
C15_UniformTableNoColour ==
    hm_applied =>
        /\ Cardinality(ColorableValues) <= 1 =>
               \A r \in DOMAIN hm_table : \A c \in DOMAIN hm_table[r] :
                   hm_color[r][c] = NoColor
        /\ Cardinality(ColorableValues) > 1 =>
               \A c \in DataColumns : UniformColumn(c) =>
                   LET v == parseFloat(hm_table[1][c]).val
                       lo == Minimum(ColorableValues)
                       hi == Maximum(ColorableValues)
                   IN  \A r \in DOMAIN hm_table :
                           hm_color[r][c] = <<Round(255 * (v - lo), hi - lo), 0,
                                              Round(255 * (hi - v), hi - lo)>>

\* a column of 1, 1 beside a column of 2, 2: both uniform, both coloured
C15_Witness ==
    /\ hm_applied
    /\ Len(hm_table) = 2
    /\ hm_table[1] = <<<<"0">>, <<"1">>, <<"2">>>>
    /\ hm_table[2] = <<<<"1">>, <<"1">>, <<"2">>>>
    /\ hm_color[1][2] = <<0, 0, 255>>
    /\ hm_color[2][3] = <<255, 0, 0>>

\* l is in name order, ascending (every name before the names behind it)
InNameOrder(l) ==
    \A i, j \in DOMAIN l : i < j => localeCompare(l[i], l[j]) < 0

Mirror(l) == [i \in DOMAIN l |-> l[Len(l) + 1 - i]]

\* C16: whatever sort modes were chosen before, the variables array is the
\* snapshot's list, in its order; the displayed list is a permutation of it:
\* the list itself for 'created', its reverse for 'created-desc', in name
\* order for 'alpha' and in reverse name order for 'alpha-desc'.
C16_SortLeavesVariables ==
    /\ variables = json_vars
    /\ Len(listEl) = Len(json_vars)
    /\ {listEl[i] : i \in DOMAIN listEl} = {json_vars[i] : i \in DOMAIN json_vars}
    /\ sort_mode = "created" => listEl = json_vars
    /\ sort_mode = "created-desc" => listEl = Mirror(json_vars)
    /\ sort_mode = "alpha" => InNameOrder(listEl)
    /\ sort_mode = "alpha-desc" => InNameOrder(Mirror(listEl))

\* three names created out of name order are shown last created first
C16_Witness ==
    /\ json_vars = << <<"b">>, <<"a", "b">>, <<"B">> >>
    /\ sort_mode = "created-desc"
    /\ listEl = << <<"B">>, <<"a", "b">>, <<"b">> >>

\* the tree rendered for the container data: what its notice says, and the
\* same for the trees of the entries rendered inside it
RECURSIVE NoticeAsClaimed(_, _)
NoticeAsClaimed(tree, data) ==
    LET rendered == Len(tree.items)
        total == Len(data.entries)
        before_last == SubSeq(tree.items, 1, rendered - 1)
    IN  /\ Len(tree.notice) <= 1
        /\ tree.notice # <<>> =>
               /\ SumBytes(tree.items) > TARGET_BYTES_PER_VAR
               /\ tree.notice[1] + rendered = total
               /\ tree.notice[1] >= 1
        /\ tree.notice = <<>> =>
               /\ rendered = total
               /\ rendered > 0 => SumBytes(before_last) <= TARGET_BYTES_PER_VAR
        /\ \A k \in 1 .. rendered :
               tree.items[k].body.kind = "tree" =>
                   NoticeAsClaimed(tree.items[k].body,
                                   NestedData(Resolve(data.entries[k].val)))

\* C17: a container that is cut off gets exactly one notice, and the number
\* in the notice plus the number of entries rendered is the container's
\* entry count; a container whose counter is within the budget whenever an
\* entry is taken has all its entries rendered and no notice.
C17_NoticeCountsTheRest ==
    pc \in {"show", "done"} =>
        \A i \in Stored :
            FragmentOf(i).kind = "tree-wrapper" =>
                NoticeAsClaimed(FragmentOf(i).tree, NestedData(ValueAt(i)))

\* the dict nest is stored: its first entry, a list of two 8 MB strings and
\* two more entries, is cut after the second with "2 more", and nest itself
\* is cut after that entry with "2 more"; the dict cfg is stored complete,
\* its last entry, a list of just two 8 MB strings, complete too: their
\* counters pass the budget with the last entry
C17_Witness ==
    \E i, j \in Stored :
        /\ local_vars[i].val.id = "nest"
        /\ FragmentOf(i).kind = "tree-wrapper"
        /\ FragmentOf(i).tree.notice = <<2>>
        /\ Len(FragmentOf(i).tree.items) = 1
        /\ FragmentOf(i).tree.items[1].body.notice = <<2>>
        /\ Len(FragmentOf(i).tree.items[1].body.items) = 2
        /\ local_vars[j].val.id = "cfg"
        /\ FragmentOf(j).kind = "tree-wrapper"
        /\ FragmentOf(j).tree.notice = <<>>
        /\ Len(FragmentOf(j).tree.items) = 7
        /\ SumBytes(FragmentOf(j).tree.items) > TARGET_BYTES_PER_VAR
        /\ FragmentOf(j).tree.items[7].body.notice = <<>>
        /\ Len(FragmentOf(j).tree.items[7].body.items) = 2

\* C18: render_recursive_html keeps to a maximum nesting depth: no call is
\* made with a level above 50, whatever the value, a list that contains
\* itself included, and the rendering of such a value ends with a fragment
\* for it rather than in the interpreter's refusal to recurse further.
C18_DepthGuard ==
    /\ \A k \in 1 .. Len(stack) : stack[k].level <= 50
    /\ \A i \in Stored :
           FragmentOf(i).kind = "error" => FragmentOf(i).reason # "RecursionError"

\* C19: in the tree of render_recursive_html every collapsible entry of the
\* first level (level 0) is emitted expanded and every collapsible entry of a
\* deeper level collapsed, whatever its variant: table, array, mapping,
\* sequence or pre-rendered fragment.
C19_FirstLevelExpanded ==
    \A k \in 1 .. Len(stack) :
        \A n \in 1 .. Len(stack[k].items) :
            stack[k].items[n].collapsible =>
                (stack[k].items[n].open <=> stack[k].level = 0)

\* C20: a value is rendered in the same variant as an entry of a container
\* (render_recursive_html) as when it is a top-level named value (show):
\* table, table of an array, tree, embedded fragment or escaped text; a
\* string in particular is escaped text in both places or an embedded
\* fragment in both.
C20_SameVariantBothPlaces ==
    \A k \in JustRendered :
        LET val == stack[k].val
            item == stack[k].items[Len(stack[k].items)]
        IN  IF Descends(val) THEN item.body.kind = "tree"
            ELSE /\ ~FormatTop(val).raises
                 /\ item.body.kind = FormatTop(val).out.kind

\* how many listeners of type are on the document for owner's resizer
Installed(type, owner) ==
    Cardinality({i \in DOMAIN listeners : listeners[i] = Listener(type, owner)})

StyleWidth(ws, el) == IF el \in DOMAIN ws THEN <<ws[el]>> ELSE <<>>

\* with no drag in progress the document holds no listener of a resizer;
\* otherwise it holds one mousemove and one mouseup listener for each
\* resizer being dragged and nothing else
C21_ListenersOfDrags ==
    /\ drags = {} => listeners = <<>>
    /\ \A i \in DOMAIN listeners : listeners[i].owner \in drags
    /\ \A o \in drags : Installed("mousemove", o) = 1 /\ Installed("mouseup", o) = 1
    /\ Len(listeners) = 2 * Cardinality(drags)

\* a step that changes a width changes it for a column or the sidebar whose
\* drag is in progress, and leaves the selection and the plot button alone
C21_MoveResizesDragged ==
    \A el \in (DOMAIN widths) \cup (DOMAIN widths') :
        StyleWidth(widths', el) # StyleWidth(widths, el) =>
            /\ el \in drags
            /\ selected' = selected
            /\ plot_btn' = plot_btn
            /\ listeners' = listeners

PlotButtonVisible == plot_btn.display = "block"

\* the label updatePlotButton writes for the cells selected now
CurrentLabel == "Plot " \o ToString(Cardinality(selected)) \o " points"

\* the button shows exactly when two or more cells are selected
C22_VisibleFromTwo == PlotButtonVisible <=> Cardinality(selected) >= 2

\* C22: after any interleaving of selection events, loads of values, copy
\* commands and callbacks of the copy-feedback timer, once no timer is
\* pending the plot button shows exactly when at least two cells are
\* selected, and a showing button is labelled with the number of cells
\* selected now, not with an earlier count and not with "Copied!".
C22_LabelAfterTimers ==
    timers = <<>> =>
        /\ C22_VisibleFromTwo
        /\ PlotButtonVisible => plot_btn.text = CurrentLabel

====
